---- MODULE Spec2Model ----
(***************************************************************************)
(* bricklink-scraper: the fetch layer (utils.RequestUtil: page cache,      *)
(* session pool, retry loop), the scrape orchestration (scrape.py) and the *)
(* process exit codes (main.py), as one state machine.                     *)
(*                                                                         *)
(* Time is counted in ticks of 1/TicksPerSecond seconds.  The clock is     *)
(* advanced by the environment (action Elapse); sleeps are counted as      *)
(* events, and the time they take is whatever Elapse lets pass.            *)
(***************************************************************************)
EXTENDS Integers, Sequences, FiniteSets, TLC

\* ------------------------------------------------------------------ bounds
MaxNow == 5
MaxCalls == 2
MaxSessions == 2
MaxRuns == 2
MaxLookups == 2
MaxRateHours == 9

\* ------------------------------------------------------- program constants
MAX_REQUEST_RETRIES == 5
MAX_DAILY_OFFLINE_RETRIES == 10

NoLimit == -1

\* clock ticks per second: the clock is finer than SAVED_PAGE_DATETIME_FORMAT
TicksPerSecond == 2

\* clock steps the environment may take: a fraction of a second, a second
Delays == {1, TicksPerSecond}
\* the cache_timeout argument the callers of the fetch layer pass: one second
Timeouts == {TicksPerSecond}
\* --requests-limit values: absent, or a small count
RequestLimits == {NoLimit, 1, 2}
\* USER_AGENTS, as indices into the list
USER_AGENTS == 1..MaxSessions

FetchURLs == {"cats", "list/c1/1"}
Bodies == {"a", "b"}
STATUS_CODES == {200, 204, 304, 429, 500}

VARIABLES
    now,                      \* dt.datetime.utcnow(), in ticks
    pages,                    \* files of the pages directory
    request_sessions,         \* RequestUtil._request_sessions
    sessions_num,             \* RequestUtil._sessions_num
    requests_limit,           \* RequestUtil._requests_limit
    request_min_pause,        \* RequestUtil._request_min_pause, in ticks
    request_max_pause,        \* RequestUtil._request_max_pause, in ticks
    current_requests_count,   \* RequestUtil._current_requests_count
    call,                     \* locals of the running _download_page
    req,                      \* arguments of the latest get_page call
    ret,                      \* how the latest get_page call ended
    calls,                    \* get_page calls made so far
    quota_signals,            \* quota signals received since construction
    site,                     \* what the remote site serves, by URL
    db,                       \* the database: Category, Part, ColoredPart rows
    proc,                     \* main() and run_scrape(): position and locals
    runs,                     \* processes started so far on the data directory
    prev,                     \* how the previous process ended
    euro_conversion_rate_files,  \* RequestUtil.euro_conversion_rate_files: its keys
    conv,                     \* the latest convert_to_euro call and how it ended
    lookups,                  \* convert_to_euro calls made so far
    rates_dir,                \* timestamps of the snapshot files on disk
    euro_conversion_rates     \* RequestUtil.euro_conversion_rates: its keys

fvars == <<now, pages, request_sessions, sessions_num, requests_limit,
           request_min_pause, request_max_pause,
           current_requests_count, call, req, ret, calls, quota_signals>>
rvars == <<site, db, proc, runs, prev>>
cvars == <<euro_conversion_rate_files, conv, lookups, rates_dir, euro_conversion_rates>>
vars == <<fvars, rvars, cvars>>

\* ------------------------------------------------------------ pure helpers
\* strftime(SAVED_PAGE_DATETIME_FORMAT) followed by strptime: whole seconds
TruncSec(t) == (t \div TicksPerSecond) * TicksPerSecond

\* b32encode(filename.encode()).decode() on the URLs of the model
filename_encode(u) ==
    CASE u = "cats" -> "MNQXI4Y="
      [] u = "list/c1/1" -> "NRUXG5BPMMYS6MI="
      [] u = "list/c1/2" -> "NRUXG5BPMMYS6MQ="
      [] u = "list/c2/1" -> "NRUXG5BPMMZC6MI="
      [] u = "part/p1" -> "OBQXE5BPOAYQ===="
      [] u = "part/p2" -> "OBQXE5BPOAZA===="
      [] u = "pg/p1/0" -> "OBTS64BRF4YA===="
      [] u = "pg/p1/1" -> "OBTS64BRF4YQ===="
      [] u = "pg/p2/0" -> "OBTS64BSF4YA===="

\* a pop that retires nobody
RemoveAt_nobody(s, i) == s

\* a pop that retires the first identity of the list, whichever was drawn
RemoveAt_first(s, i) == Tail(s)

\* self._request_sessions.pop(session_idx)
RemoveAt(s, i) == SubSeq(s, 1, i - 1) \o SubSeq(s, i + 1, Len(s))

\* glob(<encoded_name>_*.html.gz)
glob_matches(u) == {f \in pages : f.name = filename_encode(u)}

\* sorted(glob_matches) without reversed: oldest first
RECURSIVE sorted_oldest_first(_)
sorted_oldest_first(S) ==
    IF S = {} THEN <<>>
    ELSE LET m == CHOOSE f \in S : \A o \in S : f.ts <= o.ts
         IN <<m>> \o sorted_oldest_first(S \ {m})

\* reversed(sorted(glob_matches)): file names sort by their timestamp
RECURSIVE reversed_sorted(_)
reversed_sorted(S) ==
    IF S = {} THEN <<>>
    ELSE LET m == CHOOSE f \in S : \A o \in S : o.ts <= f.ts
         IN <<m>> \o reversed_sorted(S \ {m})

\* page_td >= cache_timeout
TooOld_inclusive(page_td, cache_timeout) == page_td >= cache_timeout

\* page_td > cache_timeout
TooOld(page_td, cache_timeout) == page_td > cache_timeout

\* the for loop of get_page over the stored versions, latest first
RECURSIVE cache_scan(_, _, _)
cache_scan(files, cache_timeout, t) ==
    IF files = <<>> THEN [out |-> "miss", source |-> "", timestamp |-> 0]
    ELSE LET f == Head(files)
         IN IF TooOld(t - f.ts, cache_timeout)
            THEN [out |-> "miss", source |-> "", timestamp |-> 0]
            ELSE IF f.kind = "ok"
            THEN [out |-> "hit", source |-> f.body, timestamp |-> f.ts]
            ELSE IF f.kind = "badgzip"
            THEN cache_scan(Tail(files), cache_timeout, t)
            ELSE [out |-> "raise", source |-> "", timestamp |-> 0]

\* count > limit
LimitReached_strict(count, limit) == limit # NoLimit /\ count > limit

\* self._requests_limit is not None and count >= limit
LimitReached(count, limit) == limit # NoLimit /\ count >= limit

\* timed_out or 429 or a quota-exceeded marker in the URL or the text
IsQuotaSignal(r) ==
    \/ r.kind = "timeout"
    \/ r.kind = "resp" /\ (r.status = 429 \/ r.marker)

\* a loop that never retries on the status
RetryStatus_never(status, retries) == FALSE

\* resp.status_code != 200 and unexpected_status_retries < MAX_REQUEST_RETRIES
RetryStatus(status, retries) == status # 200 /\ retries < MAX_REQUEST_RETRIES

\* requests.Response.raise_for_status raises HTTPError for 4xx and 5xx
raise_for_status(status) == 400 <= status /\ status < 600

\* a check that accepts any redirect
RedirectAllowed_any(allow, final) == TRUE

\* allow_redirect_to and allow_redirect_to.match(resp.url)
RedirectAllowed(allow, final) == allow = "single_part" /\ final = "part"

\* a draw that can exceed the larger end by a tick
uniform_beyond(a, b) == IF a <= b THEN a..(b + 1) ELSE b..(a + 1)

\* random.uniform(a, b), in ticks: a value between the two ends, whichever
\* of them is the larger
uniform(a, b) == IF a <= b THEN a..b ELSE b..a

\* daily_offline_retries <= 10
OfflineRetry_one_more(retries) == retries <= MAX_DAILY_OFFLINE_RETRIES

\* daily_offline_retries < 10
OfflineRetry(retries) == retries < MAX_DAILY_OFFLINE_RETRIES

\* what a server (or the network) can answer to one request
Responses ==
    {[kind |-> "timeout", status |-> 0, marker |-> FALSE, final |-> "same", body |-> "a"],
     [kind |-> "conn_error", status |-> 0, marker |-> FALSE, final |-> "same", body |-> "a"]}
    \cup {[kind |-> "resp", status |-> s, marker |-> FALSE, final |-> "same", body |-> "a"] :
            s \in STATUS_CODES \ {200}}
    \cup {[kind |-> "resp", status |-> 200, marker |-> TRUE, final |-> "same", body |-> "a"]}
    \cup {[kind |-> "resp", status |-> 204, marker |-> FALSE, final |-> "offline", body |-> "a"]}
    \cup {[kind |-> "resp", status |-> 200, marker |-> FALSE, final |-> f, body |-> b] :
            f \in {"same", "offline", "part", "other"}, b \in Bodies}

\* the answers that end or rotate a fetch at once: no status retry, no offline page
PlainResponses ==
    {r \in Responses : r.kind # "resp" \/ (r.status \in {200, 429} /\ r.final # "offline")}

\* ------------------------------------------------------------- the records
IdleCall ==
    [pc |-> "idle", url |-> "", allow |-> "None", stamp |-> 0,
     daily_offline_retries |-> 0, unexpected_status_retries |-> 0,
     reqs |-> 0, pauses |-> 0, retry_sleeps |-> 0, offline_sleeps |-> 0,
     bad |-> 0, bad_sleeps |-> 0,
     sess |-> 0,     \* the identity random.choice drew for the latest attempt
     last |-> "",    \* why the latest attempt went round the loop again
     pause |-> -1]   \* the pause slept before the latest attempt, in ticks

NoRet ==
    [kind |-> "none", cls |-> "", msg |-> "", source |-> "", timestamp |-> 0,
     hit |-> FALSE, miss |-> FALSE, count0 |-> 0, pool |-> 0,
     reqs |-> 0, pauses |-> 0, retry_sleeps |-> 0, bad |-> 0, bad_sleeps |-> 0,
     last_bad |-> FALSE,
     sess |-> 0,     \* the identity that made the last request of the call
     final |-> "",   \* where the last response of the call came from
     pause |-> -1]   \* the pause slept before the last request of the call

\* the call ends: exception cls(msg) leaves get_page
Raise(c, cls, msg, last_bad) ==
    [NoRet EXCEPT !.kind = "error", !.cls = cls, !.msg = msg, !.miss = TRUE,
                  !.count0 = ret.count0, !.pool = ret.pool,
                  !.reqs = c.reqs, !.pauses = c.pauses,
                  !.retry_sleeps = c.retry_sleeps, !.bad = c.bad,
                  !.bad_sleeps = c.bad_sleeps, !.last_bad = last_bad]

\* the call ends: Page(source, timestamp) is returned after a download
Return(c, source, last_bad) ==
    [NoRet EXCEPT !.kind = "page", !.source = source, !.timestamp = c.stamp,
                  !.miss = TRUE, !.count0 = ret.count0, !.pool = ret.pool,
                  !.reqs = c.reqs, !.pauses = c.pauses,
                  !.retry_sleeps = c.retry_sleeps, !.bad = c.bad,
                  !.bad_sleeps = c.bad_sleeps, !.last_bad = last_bad]

NonTwoXX(r) == r.kind = "resp" /\ ~(200 <= r.status /\ r.status < 300)

\* --------------------------------------------------------------- get_page
\* get_page up to and including the entry of _download_page
get_page(u, cache_timeout, allow) ==
    LET scan == cache_scan(reversed_sorted(glob_matches(u)), cache_timeout, now)
        limit_hit == LimitReached(current_requests_count, requests_limit)
        r0 == [NoRet EXCEPT !.count0 = current_requests_count,
                           !.pool = Len(request_sessions)]
    IN /\ call.pc = "idle"
       /\ req' = [url |-> u, cache_timeout |-> cache_timeout, allow_redirect_to |-> allow]
       /\ calls' = calls + 1
       /\ UNCHANGED <<now, pages, request_sessions, sessions_num, requests_limit,
                      request_min_pause, request_max_pause,
                      current_requests_count, quota_signals>>
       /\ IF scan.out = "hit"
          THEN /\ ret' = [r0 EXCEPT !.kind = "page", !.source = scan.source,
                                    !.timestamp = scan.timestamp, !.hit = TRUE]
               /\ call' = IdleCall
          ELSE IF scan.out = "raise"
          THEN /\ ret' = [r0 EXCEPT !.kind = "error", !.cls = "EOFError"]
               /\ call' = IdleCall
          ELSE IF limit_hit
          THEN /\ ret' = [r0 EXCEPT !.kind = "error", !.cls = "RequestLimitReached",
                                    !.miss = TRUE]
               /\ call' = IdleCall
          ELSE IF request_sessions = <<>>
          THEN /\ ret' = [r0 EXCEPT !.kind = "error", !.cls = "ScrapeError",
                                    !.msg = "Bricklinks Quota Exceeded!", !.miss = TRUE]
               /\ call' = IdleCall
          ELSE /\ ret' = r0
               /\ call' = [IdleCall EXCEPT !.pc = "loop", !.url = u, !.allow = allow,
                                           !.stamp = now]

\* a write that keeps only the newest version of a page
write_page_newest_only(files, c, body) ==
    {f \in files : f.name # filename_encode(c.url)}
    \cup {[name |-> filename_encode(c.url), ts |-> TruncSec(c.stamp),
           body |-> body, kind |-> "ok"]}

\* gzip.open(local_page_file, "wb") and the write of the page: the file is
\* named by the URL and the second the call started in; a file of that name
\* is written over
write_page(files, c, body) ==
    {f \in files : ~(f.name = filename_encode(c.url) /\ f.ts = TruncSec(c.stamp))}
    \cup {[name |-> filename_encode(c.url), ts |-> TruncSec(c.stamp),
           body |-> body, kind |-> "ok"]}

\* a loop whose retry counters start again when an identity is retired
quota_continue_reset(c) ==
    [c EXCEPT !.last = "quota", !.unexpected_status_retries = 0,
              !.daily_offline_retries = 0]

\* the locals of _download_page after the pop of the identity and the
\* "continue": the retry counters are as they were
quota_continue(c) == [c EXCEPT !.last = "quota"]

\* one iteration of the while loop of _download_page, and on success the
\* rest of get_page (the page file is written, the Page returned)
download_page_attempt(R) ==
    /\ call.pc = "loop"
    /\ \E idx \in 1..Len(request_sessions), r \in R,
          pause \in uniform(request_min_pause, request_max_pause) :
        LET sess == request_sessions
            c == [call EXCEPT !.reqs = @ + 1, !.pauses = @ + 1,
                              !.bad = IF NonTwoXX(r) /\ ~IsQuotaSignal(r) THEN @ + 1 ELSE @,
                              !.sess = sess[idx], !.pause = pause]
            bad == NonTwoXX(r) /\ ~IsQuotaSignal(r)
            end(rv) == /\ ret' = [rv EXCEPT !.sess = sess[idx], !.final = r.final,
                                            !.pause = pause]
                       /\ call' = IdleCall
        IN /\ current_requests_count' = current_requests_count + 1
           /\ UNCHANGED <<now, sessions_num, requests_limit, req, calls,
                          request_min_pause, request_max_pause>>
           /\ IF r.kind = "conn_error"
              THEN /\ end(Raise(c, "ConnectionError", "", FALSE))
                   /\ request_sessions' = sess
                   /\ UNCHANGED <<pages, quota_signals>>
              ELSE IF IsQuotaSignal(r)
              THEN /\ request_sessions' = RemoveAt(sess, idx)
                   /\ quota_signals' = quota_signals + 1
                   /\ pages' = pages
                   /\ IF RemoveAt(sess, idx) = <<>>
                      THEN end(Raise(c, "ScrapeError", "Bricklinks Quota Exceeded!", FALSE))
                      ELSE call' = quota_continue(c) /\ ret' = ret
              ELSE IF RetryStatus(r.status, call.unexpected_status_retries)
              THEN /\ call' = [c EXCEPT !.unexpected_status_retries = @ + 1,
                                        !.retry_sleeps = @ + 1,
                                        !.bad_sleeps = IF bad THEN @ + 1 ELSE @,
                                        !.last = IF bad THEN "non2xx"
                                                 ELSE IF r.final = "offline"
                                                 THEN "status_offline"
                                                 ELSE "status"]
                   /\ request_sessions' = sess
                   /\ UNCHANGED <<pages, quota_signals, ret>>
              ELSE IF raise_for_status(r.status)
              THEN /\ end(Raise(c, "HTTPError", "", bad))
                   /\ request_sessions' = sess
                   /\ UNCHANGED <<pages, quota_signals>>
              ELSE IF r.final = "offline" /\ OfflineRetry(call.daily_offline_retries)
              THEN /\ call' = [c EXCEPT !.daily_offline_retries = @ + 1,
                                        !.offline_sleeps = @ + 1,
                                        !.last = "offline"]
                   /\ request_sessions' = sess
                   /\ UNCHANGED <<pages, quota_signals, ret>>
              ELSE IF r.final = "offline"
              THEN /\ end(Raise(c, "ScrapeError",
                                "Bricklink offline for more than 200 minutes", bad))
                   /\ request_sessions' = sess
                   /\ UNCHANGED <<pages, quota_signals>>
              ELSE IF r.final # "same" /\ ~RedirectAllowed(call.allow, r.final)
              THEN /\ end(Raise(c, "ScrapeError", "Unexpected redirect", bad))
                   /\ request_sessions' = sess
                   /\ UNCHANGED <<pages, quota_signals>>
              ELSE /\ end(Return(c, r.body, bad))
                   /\ request_sessions' = sess
                   /\ quota_signals' = quota_signals
                   /\ pages' = write_page(pages, call, r.body)

\* ------------------------------------------------------------ environment
\* wall-clock time passes
Elapse ==
    /\ call.pc = "idle" \/ call.reqs = 0
    /\ \E d \in Delays : now + d <= MaxNow /\ now' = now + d
    /\ UNCHANGED <<pages, request_sessions, sessions_num, requests_limit,
                   request_min_pause, request_max_pause,
                   current_requests_count, call, req, ret, calls, quota_signals>>
    /\ UNCHANGED <<rvars, cvars>>

\* a page file an earlier run stored has gone bad on disk by the time of the
\* first call: bad magic bytes (BadGzipFile on read) or a cut-off stream
\* (EOFError on read)
Corrupt ==
    /\ calls = 0
    /\ \A f \in pages : f.kind = "ok"
    /\ \E f \in pages, k \in {"badgzip", "truncated"} :
          pages' = (pages \ {f}) \cup {[f EXCEPT !.kind = k]}
    /\ UNCHANGED <<now, request_sessions, sessions_num, requests_limit,
                   request_min_pause, request_max_pause,
                   current_requests_count, call, req, ret, calls, quota_signals>>
    /\ UNCHANGED <<rvars, cvars>>

\* the allow_redirect_to argument the call sites of scrape.py pass for a URL:
\* only scrape_parts passes one, for the first list page
AllowFor(u) == IF u = "list/c1/1" THEN "single_part" ELSE "None"

\* a caller of the fetch layer asks for a page
CallGetPage ==
    /\ calls < MaxCalls
    /\ \E u \in FetchURLs, t \in Timeouts : get_page(u, t, AllowFor(u))
    /\ UNCHANGED <<rvars, cvars>>

\* random.sample(USER_AGENTS, k = sessions_num): k distinct agents.  The list
\* is kept in ascending order: its order is never observed, because every
\* attempt draws a random index (random.choice).
RECURSIVE Ascending(_)
Ascending(S) ==
    IF S = {} THEN <<>>
    ELSE LET m == CHOOSE x \in S : \A y \in S : x <= y
         IN <<m>> \o Ascending(S \ {m})

\* a sample drawn with replacement: an agent can come twice
Samples_with_replacement(S, k) == [1..k -> S]

Samples(S, k) == {Ascending(T) : T \in {X \in SUBSET S : Cardinality(X) = k}}

\* random.sample raises ValueError: "Sample larger than population or is negative"
sample_fails(S, k) == k < 0 \/ k > Cardinality(S)

\* --sessions-num values: none, some, one more than there are user agents
SessionsNums == 0..(MaxSessions + 1)

\* the pages directory as earlier runs may have left it
InitialPages ==
    {{},
     {[name |-> filename_encode("cats"), ts |-> 0, body |-> "a", kind |-> "ok"]},
     {[name |-> filename_encode("cats"), ts |-> 0, body |-> "a", kind |-> "ok"],
      [name |-> filename_encode("cats"), ts |-> TicksPerSecond, body |-> "b", kind |-> "ok"]}}

\* ------------------------------------------------- the scrape: its data
\* config.py cache timeouts, in ticks
CATEGORIES_PAGE_CACHE_TIMEOUT == 10 * 60 * TicksPerSecond
PARTS_LIST_PAGE_CACHE_TIMEOUT == 4 * 60 * 60 * TicksPerSecond
PART_DETAILS_CACHE_TIMEOUT == 90 * 24 * 60 * 60 * TicksPerSecond
COLORED_PART_DETAILS_CACHE_TIMEOUT == 90 * 24 * 60 * 60 * TicksPerSecond

\* --sessions-num left at its default
DEFAULT_REQUEST_SESSIONS == 1

\* --requests-limit values of a scrape: absent, or three requests
RunLimits == {NoLimit, 3}

\* BricklinkUrl
categories_url == "cats"
parts_list(category_id, page) == "list/" \o category_id \o "/" \o ToString(page)
part_info(part_id) == "part/" \o part_id
part_details(part_id, color_id) == "pg/" \o part_id \o "/" \o color_id

ListURLs == {parts_list("c1", 1), parts_list("c1", 2), parts_list("c2", 1)}
PartURLs == {part_info("p1"), part_info("p2")}
VariantURLs == {part_details("p1", "0"), part_details("p1", "1"), part_details("p2", "0")}

\* CategoryScrape(name, category_id, parts_count)
CategoryScrape(category_id, parts_count) ==
    [category_id |-> category_id, parts_count |-> parts_count]

\* what scrape_parts reads off a list page: the layout (pagination bar, or
\* the single part page a one-part category redirects to), the banner's
\* numbers ("N items found. Page C of P") and the item ids listed
ListPage(layout, total_items, cur, total_pages, ids) ==
    [layout |-> layout, total_items |-> total_items, cur |-> cur,
     total_pages |-> total_pages, ids |-> ids]

\* what PartScrape.scrape reads off a part page: title and weight parse, the
\* list of colours
PartPage(ok, colors) == [ok |-> ok, colors |-> colors]

NoSite ==
    [cats_ok |-> TRUE, cats |-> <<>>,
     list |-> [u \in ListURLs |-> ListPage("paged", 0, 1, 1, <<>>)],
     part |-> [u \in PartURLs |-> PartPage(TRUE, <<>>)],
     variant |-> [u \in VariantURLs |-> "ok"]]

\* one category of one part
OnePart ==
    [NoSite EXCEPT !.cats = <<CategoryScrape("c1", 1)>>,
                   !.list["list/c1/1"] = ListPage("paged", 1, 1, 1, <<"p1">>)]

\* one category of two parts
TwoParts ==
    [NoSite EXCEPT !.cats = <<CategoryScrape("c1", 2)>>,
                   !.list["list/c1/1"] = ListPage("paged", 2, 1, 1, <<"p1", "p2">>)]

\* the remote sites of the model
Sites ==
    {\* a part with two colours, a part with none
     [TwoParts EXCEPT !.part["part/p1"] = PartPage(TRUE, <<"0", "1">>)],
     \* a list of two pages
     [TwoParts EXCEPT !.list["list/c1/1"] = ListPage("paged", 2, 1, 2, <<"p1">>),
                      !.list["list/c1/2"] = ListPage("paged", 2, 2, 2, <<"p2">>),
                      !.part["part/p2"] = PartPage(TRUE, <<"0">>)],
     \* the banner announces two items, the page lists one
     [TwoParts EXCEPT !.list["list/c1/1"] = ListPage("paged", 2, 1, 1, <<"p1">>)],
     \* an item listed twice
     [TwoParts EXCEPT !.list["list/c1/1"] = ListPage("paged", 2, 1, 1, <<"p1", "p1">>)],
     \* the categories page declares two parts, the list page has one
     [TwoParts EXCEPT !.list["list/c1/1"] = ListPage("paged", 1, 1, 1, <<"p1">>)],
     \* the banner is not that of a first page
     [TwoParts EXCEPT !.list["list/c1/1"] = ListPage("paged", 2, 2, 2, <<"p1", "p2">>)],
     \* a one-part category, redirected to the part page
     [OnePart EXCEPT !.list["list/c1/1"] = ListPage("single", 0, 0, 0, <<"p1">>),
                     !.part["part/p1"] = PartPage(TRUE, <<"0">>)],
     \* the second colour's price page is malformed
     [OnePart EXCEPT !.part["part/p1"] = PartPage(TRUE, <<"0", "1">>),
                     !.variant["pg/p1/1"] = "malformed"],
     \* a price in a currency without a conversion rate
     [OnePart EXCEPT !.part["part/p1"] = PartPage(TRUE, <<"0">>),
                     !.variant["pg/p1/0"] = "unknown_currency"],
     \* a part page without a title
     [OnePart EXCEPT !.part["part/p1"] = PartPage(FALSE, <<>>)],
     \* a colour listed twice
     [OnePart EXCEPT !.part["part/p1"] = PartPage(TRUE, <<"0", "0">>)],
     \* two categories listing the same part
     [OnePart EXCEPT !.cats = <<CategoryScrape("c1", 1), CategoryScrape("c2", 1)>>,
                     !.list["list/c2/1"] = ListPage("paged", 1, 1, 1, <<"p1">>)],
     \* two categories, one part each
     [OnePart EXCEPT !.cats = <<CategoryScrape("c1", 1), CategoryScrape("c2", 1)>>,
                     !.list["list/c2/1"] = ListPage("paged", 1, 1, 1, <<"p2">>),
                     !.part["part/p2"] = PartPage(TRUE, <<"0">>)],
     \* the categories page declares one part, the list page has two
     [OnePart EXCEPT !.list["list/c1/1"] = ListPage("paged", 2, 1, 1, <<"p1", "p2">>)],
     \* a malformed categories page
     [NoSite EXCEPT !.cats_ok = FALSE],
     \* an empty category
     [NoSite EXCEPT !.cats = <<CategoryScrape("c1", 0)>>]}

\* the tables of the database: the rows by their keys, and in dup the number
\* of ColoredPart rows that were inserted for a part and colour that had a
\* row already (the table has no unique index)
EmptyDB == [category |-> {}, part |-> {}, coloredpart |-> {}, dup |-> 0]

\* locals of main, run_scrape, scrape_parts and PartScrape.scrape
NoProc ==
    [pc |-> "none", ci |-> 0, page_n |-> 0, total_pages |-> 0, total_items |-> 0,
     parts |-> <<>>, pi |-> 0, colors |-> <<>>, coli |-> 0,
     atomic |-> FALSE, snap |-> EmptyDB, writes |-> 0,
     exc |-> "", reason |-> "", exit_code |-> -1,
     failed_part |-> "", undone |-> 0,
     msg |-> "",     \* str(err) of the exception get_page raised
     warned |-> {}]  \* categories run_scrape warned of: more parts stored than declared

NoPrev == [exc |-> "", exit_code |-> -1, completed |-> FALSE, reason |-> "", msg |-> ""]

\* ------------------------------------------- currency conversion: its data
\* config.py CONVERSION_RATES_EXPIRY_TIME, in ticks
CONVERSION_RATES_EXPIRY_TIME == 6 * 60 * 60 * TicksPerSecond

\* time between the end of one process and the start of the next: at once,
\* just over the categories timeout, just over the list timeout, just over
\* the expiry time of the rates
WaitDelays == {1, CATEGORIES_PAGE_CACHE_TIMEOUT + 1, PARTS_LIST_PAGE_CACHE_TIMEOUT + 1,
               CONVERSION_RATES_EXPIRY_TIME + 1}

Minutes(m) == m * 60 * TicksPerSecond
Hours(h) == h * 60 * 60 * TicksPerSecond

\* the rate snapshots earlier runs may have left in the rates directory
InitialRateFiles == {{}, {0}, {0, Minutes(100)}}

\* timestamps of the pages whose prices are converted
RateTargets == {Minutes(30), Minutes(50), Minutes(70), Minutes(100), Minutes(101)}

\* clock steps between conversions: an hour, seven hours, a tick more than
\* the expiry time
RateDelays == {Hours(1), Hours(7), CONVERSION_RATES_EXPIRY_TIME + 1}

\* currency codes as price pages spell them (the page text is lower-cased
\* before the match), and one spelled in capitals
Currencies == {"us", "rol", "eur", "EUR", "xyz"}

\* the keys of the "rates" object of a downloaded snapshot
RATE_CODES == {"USD", "RON", "EUR"}

\* how the download of a snapshot can end: stored, an HTTP error status,
\* a result field other than "success"
RateDownloads == {"ok", "http_error", "no_success"}

\* str.lower on the codes of the model
Lower(c) ==
    CASE c = "EUR" -> "eur"
      [] OTHER -> c

\* str.upper on the codes of the model
Upper(c) ==
    CASE c = "usd" -> "USD" [] c = "us" -> "US"
      [] c = "ron" -> "RON" [] c = "rol" -> "ROL"
      [] c = "eur" -> "EUR" [] c = "xyz" -> "XYZ"
      [] c = "aud" -> "AUD" [] c = "cad" -> "CAD"
      [] OTHER -> c

\* config.py CURRENCY_NAME_MAP
CURRENCY_NAME_MAP == [us |-> "usd", rol |-> "ron", au |-> "aud", ca |-> "cad"]

NoConv ==
    [kind |-> "none", cls |-> "", currency |-> "", timestamp |-> 0,
     download |-> "no", closest |-> -1, warned |-> FALSE]

\* RequestUtil.__init__, called on its own: no scrape is running
Init ==
    /\ site = NoSite /\ db = EmptyDB /\ proc = NoProc /\ runs = 0 /\ prev = NoPrev
    /\ euro_conversion_rate_files = {} /\ conv = NoConv /\ lookups = 0
    /\ rates_dir = {} /\ euro_conversion_rates = {}
    /\ now = TicksPerSecond
    /\ pages \in InitialPages
    /\ sessions_num \in 1..MaxSessions
    /\ request_sessions \in Samples(USER_AGENTS, sessions_num)
    /\ requests_limit \in RequestLimits
    /\ request_min_pause = TicksPerSecond /\ request_max_pause = TicksPerSecond
    /\ current_requests_count = 0
    /\ call = IdleCall
    /\ req = [url |-> "", cache_timeout |-> 0, allow_redirect_to |-> "None"]
    /\ ret = NoRet
    /\ calls = 0
    /\ quota_signals = 0

\* the fetch layer under repeated calls, against a server that answers each
\* request finally (page, quota signal, redirect, connection error)
PlainAttempt == download_page_attempt(PlainResponses) /\ UNCHANGED <<rvars, cvars>>

Next ==
    \/ CallGetPage
    \/ PlainAttempt
    \/ Elapse
    \/ Corrupt

Spec == Init /\ [][Next]_vars

\* one get_page call against a server that may answer anything
FirstCall ==
    /\ calls = 0
    /\ \E u \in FetchURLs, t \in Timeouts : get_page(u, t, AllowFor(u))
    /\ UNCHANGED <<rvars, cvars>>

AnyAttempt == download_page_attempt(Responses) /\ UNCHANGED <<rvars, cvars>>

NextLoop ==
    \/ FirstCall
    \/ AnyAttempt

SpecLoop == Init /\ [][NextLoop]_vars

\* --min-pause and --max-pause values, in ticks: no pause, half a second to
\* a second, the two ends the wrong way round
PauseWindows == {<<0, 0>>, <<1, TicksPerSecond>>, <<TicksPerSecond, 1>>}

\* RequestUtil.__init__ with a pause window and two sessions
InitPause ==
    /\ site = NoSite /\ db = EmptyDB /\ proc = NoProc /\ runs = 0 /\ prev = NoPrev
    /\ euro_conversion_rate_files = {} /\ conv = NoConv /\ lookups = 0
    /\ rates_dir = {} /\ euro_conversion_rates = {}
    /\ now = TicksPerSecond
    /\ pages = {}
    /\ sessions_num = 2
    /\ request_sessions \in Samples(USER_AGENTS, sessions_num)
    /\ requests_limit = NoLimit
    /\ \E w \in PauseWindows : request_min_pause = w[1] /\ request_max_pause = w[2]
    /\ current_requests_count = 0
    /\ call = IdleCall
    /\ req = [url |-> "", cache_timeout |-> 0, allow_redirect_to |-> "None"]
    /\ ret = NoRet
    /\ calls = 0
    /\ quota_signals = 0

\* one get_page call, every attempt after its pause
SpecPause == InitPause /\ [][NextLoop]_vars

\* the answers that move the retry counters of _download_page, or end it:
\* a quota signal, a server error, the offline page, the page asked for
CounterResponses ==
    {r \in Responses :
        /\ r.kind = "resp" /\ ~r.marker
        /\ \/ r.status \in {429, 500} /\ r.final = "same"
           \/ r.status = 200 /\ r.final \in {"same", "offline"}}

\* RequestUtil.__init__ with two sessions and an empty pages directory
InitCounters ==
    /\ site = NoSite /\ db = EmptyDB /\ proc = NoProc /\ runs = 0 /\ prev = NoPrev
    /\ euro_conversion_rate_files = {} /\ conv = NoConv /\ lookups = 0
    /\ rates_dir = {} /\ euro_conversion_rates = {}
    /\ now = TicksPerSecond
    /\ pages = {}
    /\ sessions_num = 2
    /\ request_sessions = SubSeq(Ascending(USER_AGENTS), 1, sessions_num)
    /\ requests_limit = NoLimit
    /\ request_min_pause = TicksPerSecond /\ request_max_pause = TicksPerSecond
    /\ current_requests_count = 0
    /\ call = IdleCall
    /\ req = [url |-> "", cache_timeout |-> 0, allow_redirect_to |-> "None"]
    /\ ret = NoRet
    /\ calls = 0
    /\ quota_signals = 0

CounterAttempt == download_page_attempt(CounterResponses) /\ UNCHANGED <<rvars, cvars>>

NextCounters ==
    \/ CallGetPage
    \/ CounterAttempt

\* get_page calls one after another, each with its own retry counters
SpecCounters == InitCounters /\ [][NextCounters]_vars

\* ------------------------------------------------------------ the scrape
\* main: sys.exit status for the exception that left run_scrape ("": none).
\* An exception no except clause names ends the interpreter with status 1.
main_exit_all_zero(exc) == 0

\* a main whose except ScrapeError clause is missing
main_exit_uncaught(exc) ==
    CASE exc = "" -> 0
      [] exc = "RequestLimitReached" -> 0
      [] exc = "KeyboardInterrupt" -> 3
      [] OTHER -> 1

main_exit(exc) ==
    CASE exc = "" -> 0
      [] exc = "RequestLimitReached" -> 0
      [] exc = "KeyboardInterrupt" -> 3
      [] exc = "ScrapeError" -> 2
      [] OTHER -> 1

\* a block that keeps its writes when an exception leaves it
rollback_nothing(d, snap) == d

\* db.atomic().__exit__ on an exception: the transaction is rolled back
rollback(d, snap) == snap

\* Part.item_id is unique: an INSERT of an item_id that has a row fails
unique_violation(d, part_id) == \E r \in d.part : r.item_id = part_id

\* Part.create(item_id = ..., category = ...)
create_part(d, part_id, category_id) ==
    [d EXCEPT !.part = @ \cup {[item_id |-> part_id, category |-> category_id]}]

\* ColoredPart.create(part = ..., color_id = ...)
create_colored_part(d, part_id, color_id) ==
    [d EXCEPT !.coloredpart = @ \cup {[part |-> part_id, color_id |-> color_id]},
              !.dup = IF [part |-> part_id, color_id |-> color_id] \in d.coloredpart
                      THEN @ + 1 ELSE @]

\* a check that never finds the part
part_exists_never(d, part_id) == FALSE

\* Part.select().where(Part.item_id == part_id).first() is not None
part_exists(d, part_id) == \E r \in d.part : r.item_id = part_id

\* a check that never finds the variant
colored_part_exists_never(d, part_id, color_id) == FALSE

\* ColoredPart.select().where(part == ..., color_id == ...).first() is not None
colored_part_exists(d, part_id, color_id) ==
    [part |-> part_id, color_id |-> color_id] \in d.coloredpart

\* a count that takes no part for stored
missing_items_count_declared(c, d) == c.parts_count

\* CategoryScrape.missing_items_count, the category row being there
missing_items_count(c, d) ==
    c.parts_count - Cardinality({r \in d.part : r.category = c.category_id})

\* a check that accepts any count
count_mismatch_never(parts, total_items) == FALSE

\* len(parts) != total_items
count_mismatch(parts, total_items) == Len(parts) # total_items

\* len(parts) != len(set(parts))
has_duplicates(parts) ==
    Len(parts) # Cardinality({parts[i] : i \in 1..Len(parts)})

\* the next step of the process is a get_page call
Fetch(p, d, u, cache_timeout, allow) ==
    [proc |-> p, db |-> d, act |-> "fetch", url |-> u,
     cache_timeout |-> cache_timeout, allow |-> allow]

\* the process ends: exception exc ("": none) has left run_scrape
Exit(p, d, exc) ==
    [proc |-> [p EXCEPT !.pc = "exited", !.exc = exc, !.exit_code = main_exit(exc)],
     db |-> d, act |-> "exit", url |-> "", cache_timeout |-> 0, allow |-> "None"]

\* run_scrape: the loop over the categories, from the i-th one on, up to the
\* first get_page call of scrape_parts
RECURSIVE for_category(_, _, _)
for_category(p, d, i) ==
    IF i > Len(site.cats) THEN Exit([p EXCEPT !.ci = i], d, "")
    ELSE LET c == site.cats[i]
             create == c.category_id \notin d.category
             d1 == [d EXCEPT !.category = @ \cup {c.category_id}]
             p1 == [p EXCEPT !.ci = i, !.writes = IF create THEN @ + 1 ELSE @,
                             !.warned = IF missing_items_count(c, d1) < 0
                                        THEN @ \cup {c.category_id} ELSE @]
         IN IF missing_items_count(c, d1) > 0
            THEN Fetch([p1 EXCEPT !.pc = "list", !.page_n = 1, !.parts = <<>>,
                                  !.total_pages = 0, !.total_items = 0, !.pi = 0],
                       d1, parts_list(c.category_id, 1), PARTS_LIST_PAGE_CACHE_TIMEOUT,
                       IF c.parts_count = 1 THEN "single_part" ELSE "None")
            ELSE for_category(p1, d1, i + 1)

\* scrape_parts: the loop over the parts, from the i-th one on, each in its
\* own db.atomic() block, up to the get_page call of PartScrape.scrape
RECURSIVE for_part(_, _, _)
for_part(p, d, i) ==
    IF i > Len(p.parts) THEN for_category([p EXCEPT !.pi = i], d, p.ci + 1)
    ELSE IF part_exists(d, p.parts[i]) THEN for_part(p, d, i + 1)
    ELSE Fetch([p EXCEPT !.pc = "part", !.pi = i, !.atomic = TRUE, !.snap = d,
                         !.colors = <<>>, !.coli = 0],
               d, part_info(p.parts[i]), PART_DETAILS_CACHE_TIMEOUT, "None")

\* the atomic block of the part is left without an exception
commit(p) == [p EXCEPT !.atomic = FALSE, !.snap = EmptyDB]

\* a loop over the parts that catches the failure of an item and goes on
\* with the next item
Throw_skip(p, d, exc, reason) ==
    IF p.atomic
    THEN for_part([p EXCEPT !.reason = reason, !.failed_part = p.parts[p.pi],
                            !.atomic = FALSE, !.snap = EmptyDB],
                  rollback(d, p.snap), p.pi + 1)
    ELSE Exit([p EXCEPT !.reason = reason], d, exc)

\* exception exc is raised: an open db.atomic() block is left on the way out
Throw(p, d, exc, reason) ==
    LET d1 == IF p.atomic THEN rollback(d, p.snap) ELSE d
    IN Exit([p EXCEPT !.reason = reason,
                      !.failed_part = IF p.atomic THEN p.parts[p.pi] ELSE "",
                      !.undone = IF p.atomic
                                 THEN Cardinality(d.part \ p.snap.part)
                                      + Cardinality(d.coloredpart \ p.snap.coloredpart)
                                 ELSE 0,
                      !.atomic = FALSE, !.snap = EmptyDB],
            d1, exc)

\* PartScrape.scrape: the loop over the colours, from the j-th one on, up to
\* the get_page call of ColoredPartScrape.scrape
for_color(p, d, j) ==
    IF j > Len(p.colors) THEN for_part(commit([p EXCEPT !.coli = j]), d, p.pi + 1)
    ELSE IF colored_part_exists(d, p.parts[p.pi], p.colors[j])
    THEN Throw([p EXCEPT !.coli = j], d, "RuntimeError", "colored")
    ELSE Fetch([p EXCEPT !.pc = "variant", !.coli = j], d,
               part_details(p.parts[p.pi], p.colors[j]),
               COLORED_PART_DETAILS_CACHE_TIMEOUT, "None")

\* scrape_parts after the last list page: the two checks, then the parts
check_parts(p, d, counted) ==
    IF counted /\ count_mismatch(p.parts, p.total_items)
    THEN Throw(p, d, "ScrapeError", "count")
    ELSE IF has_duplicates(p.parts)
    THEN Throw(p, d, "ScrapeError", "duplicate")
    ELSE for_part(p, d, 1)

\* scrape_parts from the return of a get_page call for a list page
after_list_page(p, d, source) ==
    LET c == site.cats[p.ci]
        pg == site.list[source]
        more(q) == IF q.page_n < q.total_pages
                   THEN Fetch([q EXCEPT !.page_n = @ + 1], d,
                              parts_list(c.category_id, q.page_n + 1),
                              PARTS_LIST_PAGE_CACHE_TIMEOUT, "None")
                   ELSE check_parts(q, d, TRUE)
    IN IF p.page_n > 1 THEN more([p EXCEPT !.parts = @ \o pg.ids])
       ELSE IF c.parts_count = 1 /\ pg.layout = "single"
       THEN check_parts([p EXCEPT !.total_items = 1, !.parts = <<pg.ids[1]>>], d, FALSE)
       ELSE IF pg.layout = "single" THEN Throw(p, d, "IndexError", "layout")
       ELSE IF pg.cur # 1 THEN Throw(p, d, "ScrapeError", "banner")
       ELSE more([p EXCEPT !.total_pages = pg.total_pages,
                           !.total_items = pg.total_items, !.parts = pg.ids])

\* PartScrape.scrape from the return of its get_page call
after_part_page(p, d, source) ==
    LET pg == site.part[source]
        d1 == create_part(d, p.parts[p.pi], site.cats[p.ci].category_id)
        p1 == [p EXCEPT !.writes = @ + 1, !.colors = pg.colors]
    IN IF ~pg.ok THEN Throw(p, d, "ScrapeError", "part")
       ELSE IF unique_violation(d, p.parts[p.pi])
       THEN Throw(p, d, "IntegrityError", "unique")
       ELSE for_color(p1, d1, 1)

\* the rate snapshots and the conversion of a price
Abs(x) == IF x < 0 THEN -x ELSE x

Max(S) == CHOOSE x \in S : \A y \in S : y <= x

\* a lookup that downloads every time
needs_download_always(files, timestamp, t) == TRUE

\* a refresh decided on the age of the newest snapshot alone
needs_download_when_stale(files, timestamp, t) ==
    files = {} \/ t - Max(files) > CONVERSION_RATES_EXPIRY_TIME

\* the condition of _get_euro_conversion_rates_for_timestamp for a download:
\* no snapshot, or the timestamp is not before the newest snapshot and the
\* newest snapshot is older, by the clock, than the expiry time
needs_download(files, timestamp, t) ==
    files = {} \/ (timestamp >= Max(files)
                   /\ t - Max(files) > CONVERSION_RATES_EXPIRY_TIME)

\* a choice of the newest snapshot not after the timestamp
closest_not_after(files, timestamp) ==
    IF \E f \in files : f <= timestamp
    THEN {Max({f \in files : f <= timestamp})}
    ELSE {f \in files : \A g \in files : f <= g}

\* min(ts_differences, key = difference): a snapshot of least difference; of
\* two at the same difference the first in the order of the dict, which is
\* the order glob listed the files in
closest_timestamps(files, timestamp) ==
    {f \in files : \A g \in files : Abs(timestamp - f) <= Abs(timestamp - g)}

\* CURRENCY_NAME_MAP.get(currency.lower(), currency).upper()
currency_name(currency) ==
    Upper(IF Lower(currency) \in DOMAIN CURRENCY_NAME_MAP
          THEN CURRENCY_NAME_MAP[Lower(currency)]
          ELSE currency)

\* the snapshot files, the index of them and the rates held in memory
RateStore(dir, files, rates) == [dir |-> dir, files |-> files, rates |-> rates]

\* the snapshot enters the memory first and the disk last
download_steps_memory_first == <<"rates", "files", "dir">>

\* the effects of _download_euro_conversion_rates once the response is in
\* hand, in their order: the file is written, its timestamp enters
\* euro_conversion_rate_files, its rates enter euro_conversion_rates
download_steps == <<"dir", "files", "rates">>

\* one effect of the download of the snapshot of timestamp ts
download_step(step, ts, st) ==
    IF step = "dir" THEN [st EXCEPT !.dir = @ \cup {ts}]
    ELSE IF step = "files" THEN [st EXCEPT !.files = @ \cup {ts}]
    ELSE [st EXCEPT !.rates = @ \cup {ts}]

RECURSIVE download_effects(_, _, _)
\* the first n effects of the download
download_effects(n, ts, st) ==
    IF n = 0 THEN st
    ELSE download_step(download_steps[n], ts, download_effects(n - 1, ts, st))

\* convert_to_euro(currency, amount, timestamp) at clock time t on the rate
\* store st, with the rate lookup and the download it may make: the ways it
\* can end, each with the store it leaves
convert_outcomes(st, currency, timestamp, t) ==
    LET c0 == [NoConv EXCEPT !.currency = currency, !.timestamp = timestamp]
        finish(st1, download) ==
            {[store |-> [st1 EXCEPT !.rates = @ \cup {closest}],
              conv |-> [c0 EXCEPT
                  !.download = download,
                  !.closest = closest,
                  !.warned = Abs(timestamp - closest) > CONVERSION_RATES_EXPIRY_TIME,
                  !.kind = IF currency_name(currency) \in RATE_CODES
                           THEN "value" ELSE "error",
                  !.cls = IF currency_name(currency) \in RATE_CODES
                          THEN "" ELSE "KeyError"]] :
               closest \in closest_timestamps(st1.files, timestamp)}
        fail(download, cls) ==
            {[store |-> st,
              conv |-> [c0 EXCEPT !.download = download, !.kind = "error", !.cls = cls]]}
        downloaded(d) ==
            IF d = "http_error" THEN fail(d, "HTTPError")
            ELSE IF d = "no_success" THEN fail(d, "ScrapeError")
            ELSE IF TruncSec(t) \in st.dir THEN fail(d, "AssertionError")
            ELSE finish(download_effects(Len(download_steps), TruncSec(t), st), d)
    IN IF needs_download(st.files, timestamp, t)
       THEN UNION {downloaded(d) : d \in RateDownloads}
       ELSE finish(st, "no")

\* the conversion ended as o: what it leaves in the instance and on disk
converted(o) ==
    /\ rates_dir' = o.store.dir
    /\ euro_conversion_rate_files' = o.store.files
    /\ euro_conversion_rates' = o.store.rates
    /\ conv' = o.conv

\* the timestamp the prices are converted for is the clock's
conversion_timestamp_utcnow(page_timestamp, t) == t

\* cnv_fn(match, page.timestamp): the timestamp convert_price hands to
\* convert_to_euro, of the page's timestamp and the clock's time
conversion_timestamp(page_timestamp, t) == page_timestamp

\* the currency of the prices of a price page
page_currency(kind) == IF kind = "unknown_currency" THEN "xyz" ELSE "us"

\* ColoredPartScrape.scrape from the return of its get_page call, the
\* conversion of the prices having ended as cv
after_variant_page(p, d, source, cv) ==
    LET kind == site.variant[source]
        d1 == create_colored_part(d, p.parts[p.pi], p.colors[p.coli])
    IN IF kind = "malformed" THEN Throw(p, d, "ScrapeError", "variant")
       ELSE IF cv.kind = "error"
       THEN Throw(p, d, cv.cls, IF cv.cls = "KeyError" THEN "currency" ELSE "rates")
       ELSE for_color([p EXCEPT !.writes = @ + 1], d1, p.coli + 1)

\* the process goes on to its next get_page call, or ends
Proceed(k) ==
    /\ proc' = k.proc
    /\ db' = k.db
    /\ UNCHANGED <<site, runs, prev>>
    /\ IF k.act = "fetch"
       THEN get_page(k.url, k.cache_timeout, k.allow)
       ELSE UNCHANGED fvars

\* the same, of a step that converts no price
Continue(k) == Proceed(k) /\ UNCHANGED cvars

Returned(pc) == proc.pc = pc /\ call.pc = "idle" /\ ret.kind = "page"

\* run_scrape is entered: the categories page is asked for
RunScrape ==
    /\ proc.pc = "start"
    /\ Continue(Fetch([proc EXCEPT !.pc = "cats"], db, categories_url,
                      CATEGORIES_PAGE_CACHE_TIMEOUT, "None"))

\* the categories page is there: scrape_from_page, then the categories
CategoriesPage ==
    /\ Returned("cats")
    /\ Continue(IF site.cats_ok THEN for_category(proc, db, 1)
                ELSE Throw(proc, db, "ScrapeError", "categories"))

\* a list page is there
ListPageReturned ==
    /\ Returned("list")
    /\ Continue(after_list_page(proc, db, ret.source))

\* a part page is there
PartPageReturned ==
    /\ Returned("part")
    /\ Continue(after_part_page(proc, db, ret.source))

\* a price page is there
VariantPageReturned ==
    /\ Returned("variant")
    /\ IF site.variant[ret.source] = "malformed"
       THEN Continue(after_variant_page(proc, db, ret.source, NoConv))
       ELSE \E o \in convert_outcomes(
                        RateStore(rates_dir, euro_conversion_rate_files,
                                  euro_conversion_rates),
                        page_currency(site.variant[ret.source]),
                        conversion_timestamp(ret.timestamp, now), now) :
               /\ converted(o)
               /\ UNCHANGED lookups
               /\ Proceed(after_variant_page(proc, db, ret.source, o.conv))

\* get_page raised: the exception leaves run_scrape
FetchFailed ==
    /\ proc.pc \in {"cats", "list", "part", "variant"}
    /\ call.pc = "idle" /\ ret.kind = "error"
    /\ Continue(Throw([proc EXCEPT !.msg = ret.msg], db, ret.cls, "fetch"))

\* Ctrl+C while a download is under way
KeyboardInterrupt ==
    /\ proc.pc \in {"cats", "list", "part", "variant"}
    /\ call.pc = "loop"
    /\ proc' = Throw(proc, db, "KeyboardInterrupt", "interrupt").proc
    /\ db' = Throw(proc, db, "KeyboardInterrupt", "interrupt").db
    /\ call' = IdleCall
    /\ ret' = Raise(call, "KeyboardInterrupt", "", FALSE)
    /\ UNCHANGED <<now, pages, request_sessions, sessions_num, requests_limit,
                   request_min_pause, request_max_pause,
                   current_requests_count, req, calls, quota_signals>>
    /\ UNCHANGED <<site, runs, prev, cvars>>

\* the page the site serves for the URL comes with a redirect to the part
\* page when the category has the single-part layout
ServerFinal(u) ==
    IF u \in ListURLs /\ site.list[u].layout = "single" THEN "part" ELSE "same"

\* what the site and the network can answer to a request of the scrape; the
\* body of a page is identified with its URL
RunResponses ==
    {[r EXCEPT !.body = call.url] :
        r \in {x \in PlainResponses :
                 /\ x.body = "a"
                 /\ (x.kind = "resp" /\ x.status = 200 /\ ~x.marker)
                       => x.final \in {ServerFinal(call.url), "other"}}}

RunAttempt ==
    /\ proc.pc \in {"cats", "list", "part", "variant"}
    /\ download_page_attempt(RunResponses)
    /\ UNCHANGED <<rvars, cvars>>

\* the program is started again on the same data directory: main builds a
\* new RequestUtil; the pages directory and the database are kept
NewRun ==
    /\ proc.pc = "exited"
    /\ runs < MaxRuns
    /\ \E d \in WaitDelays : now' = now + d
    /\ runs' = runs + 1
    /\ prev' = [exc |-> proc.exc, exit_code |-> proc.exit_code,
                completed |-> proc.exc = "", reason |-> proc.reason, msg |-> proc.msg]
    /\ proc' = [NoProc EXCEPT !.pc = "start"]
    /\ sessions_num' = DEFAULT_REQUEST_SESSIONS
    /\ request_sessions' \in Samples(USER_AGENTS, DEFAULT_REQUEST_SESSIONS)
    /\ requests_limit' \in RunLimits
    /\ UNCHANGED <<request_min_pause, request_max_pause>>
    /\ current_requests_count' = 0
    /\ call' = IdleCall
    /\ req' = [url |-> "", cache_timeout |-> 0, allow_redirect_to |-> "None"]
    /\ ret' = NoRet
    /\ calls' = 0
    /\ quota_signals' = 0
    /\ euro_conversion_rate_files' = rates_dir
    /\ euro_conversion_rates' = {}
    /\ conv' = NoConv
    /\ UNCHANGED <<pages, site, db, lookups, rates_dir>>

\* main on a new data directory
InitRun ==
    /\ site \in Sites /\ db = EmptyDB /\ runs = 1 /\ prev = NoPrev
    /\ euro_conversion_rate_files = {} /\ conv = NoConv /\ lookups = 0
    /\ rates_dir = {} /\ euro_conversion_rates = {}
    /\ proc = [NoProc EXCEPT !.pc = "start"]
    /\ now = TicksPerSecond
    /\ pages = {}
    /\ sessions_num = DEFAULT_REQUEST_SESSIONS
    /\ request_sessions \in Samples(USER_AGENTS, DEFAULT_REQUEST_SESSIONS)
    /\ requests_limit \in RunLimits
    /\ request_min_pause = TicksPerSecond /\ request_max_pause = TicksPerSecond
    /\ current_requests_count = 0
    /\ call = IdleCall
    /\ req = [url |-> "", cache_timeout |-> 0, allow_redirect_to |-> "None"]
    /\ ret = NoRet
    /\ calls = 0
    /\ quota_signals = 0

NextRun ==
    \/ RunScrape
    \/ CategoriesPage
    \/ ListPageReturned
    \/ PartPageReturned
    \/ VariantPageReturned
    \/ FetchFailed
    \/ RunAttempt
    \/ KeyboardInterrupt
    \/ NewRun

SpecRun == InitRun /\ [][NextRun]_vars

\* main before RequestUtil is constructed
InitConstruct ==
    /\ site = NoSite /\ db = EmptyDB /\ runs = 0 /\ prev = NoPrev
    /\ proc = [NoProc EXCEPT !.pc = "main"]
    /\ euro_conversion_rate_files = {} /\ conv = NoConv /\ lookups = 0
    /\ rates_dir = {} /\ euro_conversion_rates = {}
    /\ now = TicksPerSecond
    /\ pages = {}
    /\ sessions_num \in SessionsNums
    /\ request_sessions = <<>>
    /\ requests_limit = NoLimit
    /\ request_min_pause = TicksPerSecond /\ request_max_pause = TicksPerSecond
    /\ current_requests_count = 0
    /\ call = IdleCall
    /\ req = [url |-> "", cache_timeout |-> 0, allow_redirect_to |-> "None"]
    /\ ret = NoRet
    /\ calls = 0
    /\ quota_signals = 0

\* main constructs RequestUtil: __init__ draws the user agents of the
\* sessions; a ValueError of random.sample leaves main uncaught
Construct ==
    /\ proc.pc = "main"
    /\ IF sample_fails(USER_AGENTS, sessions_num)
       THEN /\ proc' = [proc EXCEPT !.pc = "exited", !.exc = "ValueError",
                                    !.exit_code = main_exit("ValueError")]
            /\ request_sessions' = <<>>
       ELSE /\ proc' = [proc EXCEPT !.pc = "constructed"]
            /\ request_sessions' \in Samples(USER_AGENTS, sessions_num)
    /\ UNCHANGED <<now, pages, sessions_num, requests_limit,
                   request_min_pause, request_max_pause,
                   current_requests_count, call, req, ret, calls, quota_signals>>
    /\ UNCHANGED <<site, db, runs, prev, cvars>>

\* the first get_page call of the instance
ConstructedCall == proc.pc = "constructed" /\ FirstCall

NextConstruct ==
    \/ Construct
    \/ ConstructedCall
    \/ AnyAttempt

SpecConstruct == InitConstruct /\ [][NextConstruct]_vars

\* ------------------------------------------- Ctrl+C while a page is stored
\* what a Ctrl+C during "with gzip.open(local_page_file, "wb") as fh:
\* fh.write(...)" leaves of the file, by the instruction it arrives at: no
\* file (before the open), a gzip file of no content (before the data is
\* handed to the compressor), a file whose check sum does not match
\* (BadGzipFile on read), a file whose end is missing (EOFError on read), the
\* whole file (after the close)
write_outcomes == {"none", "empty", "badgzip", "truncated", "whole"}

\* the page file of the call as the interrupted write leaves it
interrupted_file(c, body, o) ==
    [name |-> filename_encode(c.url), ts |-> TruncSec(c.stamp),
     body |-> IF o = "empty" THEN "" ELSE body,
     kind |-> IF o \in {"badgzip", "truncated"} THEN o ELSE "ok"]

\* main of a process that makes get_page calls, on an empty pages directory
InitInterrupt ==
    /\ site = NoSite /\ db = EmptyDB /\ runs = 1 /\ prev = NoPrev
    /\ proc = [NoProc EXCEPT !.pc = "start"]
    /\ euro_conversion_rate_files = {} /\ conv = NoConv /\ lookups = 0
    /\ rates_dir = {} /\ euro_conversion_rates = {}
    /\ now = TicksPerSecond
    /\ pages = {}
    /\ sessions_num = Cardinality(USER_AGENTS)
    /\ request_sessions = Ascending(USER_AGENTS)
    /\ requests_limit = NoLimit
    /\ request_min_pause = TicksPerSecond /\ request_max_pause = TicksPerSecond
    /\ current_requests_count = 0
    /\ call = IdleCall
    /\ req = [url |-> "", cache_timeout |-> 0, allow_redirect_to |-> "None"]
    /\ ret = NoRet
    /\ calls = 0
    /\ quota_signals = 0

\* the process asks for a page
ProcessCall ==
    /\ proc.pc = "start" /\ ret.kind # "error"
    /\ calls < MaxCalls
    /\ \E u \in FetchURLs, t \in Timeouts : get_page(u, t, AllowFor(u))
    /\ UNCHANGED <<rvars, cvars>>

ProcessAttempt ==
    /\ proc.pc = "start"
    /\ PlainAttempt

\* the download of the page has succeeded and Ctrl+C arrives while get_page
\* stores the page: the file is left as the write got to, KeyboardInterrupt
\* leaves get_page and main exits
InterruptedWrite ==
    /\ proc.pc = "start" /\ call.pc = "loop"
    /\ \E idx \in 1..Len(request_sessions), o \in write_outcomes,
          r \in {x \in PlainResponses : /\ x.kind = "resp" /\ x.status = 200
                                        /\ ~x.marker /\ x.final = "same"} :
          LET c == [call EXCEPT !.reqs = @ + 1, !.pauses = @ + 1,
                                !.sess = request_sessions[idx]]
              file == interrupted_file(call, r.body, o)
          IN /\ pages' = IF o = "none" THEN pages
                         ELSE {f \in pages : ~(f.name = file.name /\ f.ts = file.ts)}
                              \cup {file}
             /\ ret' = [Raise(c, "KeyboardInterrupt", "", FALSE) EXCEPT
                           !.sess = request_sessions[idx], !.final = r.final]
    /\ call' = IdleCall
    /\ current_requests_count' = current_requests_count + 1
    /\ proc' = [proc EXCEPT !.pc = "exited", !.exc = "KeyboardInterrupt",
                            !.reason = "interrupt",
                            !.exit_code = main_exit("KeyboardInterrupt")]
    /\ UNCHANGED <<now, request_sessions, sessions_num, requests_limit,
                   request_min_pause, request_max_pause, req, calls, quota_signals>>
    /\ UNCHANGED <<site, db, runs, prev, cvars>>

\* an exception of get_page leaves main
ProcessFails ==
    /\ proc.pc = "start" /\ call.pc = "idle" /\ ret.kind = "error"
    /\ proc' = [proc EXCEPT !.pc = "exited", !.exc = ret.cls, !.reason = "fetch",
                            !.exit_code = main_exit(ret.cls)]
    /\ UNCHANGED <<fvars, site, db, runs, prev, cvars>>

\* the program is started again a moment later on the same pages directory
NextProcess ==
    /\ proc.pc = "exited"
    /\ runs < MaxRuns
    /\ now' = now + 1
    /\ runs' = runs + 1
    /\ prev' = [exc |-> proc.exc, exit_code |-> proc.exit_code,
                completed |-> proc.exc = "", reason |-> proc.reason, msg |-> proc.msg]
    /\ proc' = [NoProc EXCEPT !.pc = "start"]
    /\ current_requests_count' = 0
    /\ call' = IdleCall
    /\ req' = [url |-> "", cache_timeout |-> 0, allow_redirect_to |-> "None"]
    /\ ret' = NoRet
    /\ calls' = 0
    /\ quota_signals' = 0
    /\ request_sessions' = Ascending(USER_AGENTS)
    /\ UNCHANGED <<pages, sessions_num, requests_limit, request_min_pause,
                   request_max_pause, site, db, cvars>>

NextInterrupt ==
    \/ ProcessCall
    \/ ProcessAttempt
    \/ InterruptedWrite
    \/ ProcessFails
    \/ NextProcess

SpecInterrupt == InitInterrupt /\ [][NextInterrupt]_vars

\* ---------------------------------------------------- currency conversion
\* a convert_to_euro call of the conversions on their own
convert_to_euro(currency, timestamp) ==
    /\ lookups < MaxLookups
    /\ lookups' = lookups + 1
    /\ UNCHANGED <<fvars, rvars>>
    /\ \E o \in convert_outcomes(RateStore(rates_dir, euro_conversion_rate_files,
                                           euro_conversion_rates),
                                 currency, timestamp, now) :
          converted(o)

\* the process is running: no Ctrl+C has ended it
Running == conv.cls # "KeyboardInterrupt"

\* a price of some page is converted
ConvertToEuro ==
    \E currency \in Currencies, timestamp \in RateTargets \cup {now} :
        Running /\ timestamp <= now /\ convert_to_euro(currency, timestamp)

\* Ctrl+C while a conversion downloads a snapshot, after some of the effects
\* of the download: the conversion does not return
InterruptedDownload ==
    /\ Running
    /\ lookups < MaxLookups
    /\ TruncSec(now) \notin rates_dir
    /\ IF needs_download(euro_conversion_rate_files, now, now) THEN TRUE ELSE FALSE
    /\ \E currency \in Currencies, n \in 0..(Len(download_steps) - 1) :
          /\ LET st == download_effects(n, TruncSec(now),
                          RateStore(rates_dir, euro_conversion_rate_files,
                                    euro_conversion_rates))
             IN /\ rates_dir' = st.dir
                /\ euro_conversion_rate_files' = st.files
                /\ euro_conversion_rates' = st.rates
          /\ conv' = [NoConv EXCEPT !.currency = currency, !.timestamp = now,
                                    !.download = "interrupted",
                                    !.kind = "error", !.cls = "KeyboardInterrupt"]
    /\ UNCHANGED <<fvars, rvars, lookups>>

\* the program is started again: __init__ lists the snapshot files of the
\* rates directory and holds no rates in memory
Restart ==
    /\ ~Running
    /\ euro_conversion_rate_files' = rates_dir
    /\ euro_conversion_rates' = {}
    /\ conv' = NoConv
    /\ UNCHANGED <<fvars, rvars, lookups, rates_dir>>

\* wall-clock time passes between conversions
ElapseRates ==
    /\ \E d \in RateDelays : now + d <= Hours(MaxRateHours) /\ now' = now + d
    /\ UNCHANGED <<pages, request_sessions, sessions_num, requests_limit,
                   request_min_pause, request_max_pause,
                   current_requests_count, call, req, ret, calls, quota_signals>>
    /\ UNCHANGED <<rvars, cvars>>

\* RequestUtil.__init__ for the conversions: the snapshots found on disk
InitRates ==
    /\ site = NoSite /\ db = EmptyDB /\ proc = NoProc /\ runs = 0 /\ prev = NoPrev
    /\ euro_conversion_rate_files \in InitialRateFiles
    /\ conv = NoConv /\ lookups = 0
    /\ rates_dir = euro_conversion_rate_files /\ euro_conversion_rates = {}
    /\ now = Minutes(101)
    /\ pages = {}
    /\ sessions_num = DEFAULT_REQUEST_SESSIONS
    /\ request_sessions \in Samples(USER_AGENTS, DEFAULT_REQUEST_SESSIONS)
    /\ requests_limit = NoLimit
    /\ request_min_pause = TicksPerSecond /\ request_max_pause = TicksPerSecond
    /\ current_requests_count = 0
    /\ call = IdleCall
    /\ req = [url |-> "", cache_timeout |-> 0, allow_redirect_to |-> "None"]
    /\ ret = NoRet
    /\ calls = 0
    /\ quota_signals = 0

NextRates ==
    \/ ConvertToEuro
    \/ ElapseRates
    \/ InterruptedDownload
    \/ Restart

SpecRates == InitRates /\ [][NextRates]_vars

\* ================================================================ claims
QUOTA_MESSAGE == "Bricklinks Quota Exceeded!"

QuotaExhausted(r) == r.kind = "error" /\ r.cls = "ScrapeError" /\ r.msg = QUOTA_MESSAGE

\* the request limit was configured and reached when the latest call began
LimitWasReached == requests_limit # NoLimit /\ ret.count0 >= requests_limit

\* the latest stored version of u
Newest(u) == CHOOSE f \in glob_matches(u) : \A o \in glob_matches(u) : o.ts <= f.ts

\* C1 (as stated): once the pool of N identities has received N quota
\* signals, the fetch that received the last one has failed with the
\* quota-exhausted error, and every later fetch that misses the cache fails
\* with the quota-exhausted error too, without issuing a request.
C1_AlwaysQuotaExhausted ==
    quota_signals = sessions_num =>
        /\ request_sessions = <<>>
        /\ call.pc = "idle"
        /\ ret.miss => QuotaExhausted(ret)
        /\ ret.pool = 0 => ret.reqs = 0

\* C1 (amended): once the pool of N identities has received N quota signals,
\* the fetch that received the last one has failed with the quota-exhausted
\* error; every later fetch that misses the cache fails without issuing a
\* request, with the quota-exhausted error, or with RequestLimitReached when
\* a request limit was configured and already reached.
C1_ExhaustedPool ==
    quota_signals = sessions_num =>
        /\ request_sessions = <<>>
        /\ call.pc = "idle"
        /\ ret.miss /\ ret.pool > 0 => QuotaExhausted(ret) /\ ret.reqs > 0
        /\ ret.miss /\ ret.pool = 0 =>
              /\ ret.reqs = 0 /\ ret.pauses = 0
              /\ current_requests_count = ret.count0
              /\ IF LimitWasReached
                 THEN ret.kind = "error" /\ ret.cls = "RequestLimitReached"
                 ELSE QuotaExhausted(ret)

\* a fetch made after both identities of a pool of two were retired has
\* failed with the quota-exhausted error
C1_Witness ==
    /\ sessions_num = 2 /\ quota_signals = 2
    /\ ret.miss /\ ret.pool = 0 /\ QuotaExhausted(ret)

\* C2 (as stated): within one fetch each of the first five non-2xx responses
\* is followed by exactly one retry pause and a new attempt, and the fetch
\* that ends on a non-2xx response ends on the sixth one, with the HTTP error.
C2_RetryBound ==
    /\ call.pc = "loop" =>
          call.bad <= MAX_REQUEST_RETRIES /\ call.bad_sleeps = call.bad
    /\ ret.last_bad =>
          /\ ret.bad = MAX_REQUEST_RETRIES + 1
          /\ ret.bad_sleeps = MAX_REQUEST_RETRIES
          /\ ret.kind = "error" /\ ret.cls = "HTTPError"

\* C3: a get_page call that finds the latest stored version of the URL
\* readable and of age <= cache_timeout returns that version's body and
\* timestamp, makes no request and no pause, and leaves the request counter,
\* the session pool and the pages directory as they were.
C3_CacheHit ==
    [][(calls' = calls + 1
        /\ glob_matches(req'.url) # {}
        /\ Newest(req'.url).kind = "ok"
        /\ now - Newest(req'.url).ts <= req'.cache_timeout)
       => (/\ ret'.kind = "page" /\ ret'.hit
           /\ ret'.source = Newest(req'.url).body
           /\ ret'.timestamp = Newest(req'.url).ts
           /\ ret'.reqs = 0 /\ ret'.pauses = 0
           /\ call'.pc = "idle"
           /\ current_requests_count' = current_requests_count
           /\ request_sessions' = request_sessions
           /\ pages' = pages)]_vars

\* a page was served from the cache after the request limit was reached
C3_Witness ==
    /\ ret.kind = "page" /\ ret.hit /\ ret.source = "b"
    /\ LimitWasReached /\ current_requests_count > 0

\* C4: get_page examines the stored versions of the URL latest first: a
\* version it returns is readable and every later version was skipped as a
\* bad gzip file within the timeout; when the latest version is older than
\* cache_timeout the call returns no stored version and goes on to
\* _download_page.
C4_LatestFirst ==
    [][calls' = calls + 1 =>
        LET V == glob_matches(req'.url)
        IN /\ (V # {} /\ now - Newest(req'.url).ts > req'.cache_timeout)
                 => (/\ ~ret'.hit /\ ret'.kind # "page"
                     /\ call'.pc = "loop" \/ ret'.miss)
           /\ ret'.hit =>
                 \E f \in V :
                    /\ f.kind = "ok"
                    /\ f.ts = ret'.timestamp /\ f.body = ret'.source
                    /\ now - f.ts <= req'.cache_timeout
                    /\ \A g \in V : g.ts > f.ts => g.kind = "badgzip"]_vars

\* with two versions stored, the latest being too old, the call went on to
\* the network and returned the downloaded page
C4_Witness ==
    /\ req.url = "cats" /\ ret.kind = "page" /\ ret.miss /\ ret.reqs > 0
    /\ \A f \in glob_matches("cats") : f.kind = "ok"
    /\ \E f, g \in glob_matches("cats") :
          /\ f.ts < g.ts /\ g.ts < TruncSec(ret.timestamp)
          /\ ret.timestamp - g.ts > req.cache_timeout

\* the process has ended
Exited == proc.pc = "exited"

\* the terminal conditions the exit status is to tell apart
Terminal == {"", "RequestLimitReached", "ScrapeError"}

\* C5 (as stated): of normal completion, request limit reached and fatal
\* scrape error, any two end the process with different exit codes: two
\* processes that ended on different ones of them have different codes.
C5_DistinctExitCodes ==
    (Exited /\ runs >= 2 /\ proc.exc \in Terminal /\ prev.exc \in Terminal
       /\ proc.exc # prev.exc)
       => proc.exit_code # prev.exit_code

\* C5 (amended): normal completion and request limit reached both end the
\* process with exit code 0; a fatal scrape error ends it with exit code 2,
\* which differs from the code of the other two.
C5_ExitCodes ==
    /\ Exited =>
          /\ proc.exc = "" => proc.exit_code = 0
          /\ proc.exc = "RequestLimitReached" => proc.exit_code = 0
          /\ proc.exc = "ScrapeError" => proc.exit_code = 2
    /\ (Exited /\ runs >= 2 /\ proc.exc \in Terminal /\ prev.exc \in Terminal
          /\ "ScrapeError" \in {proc.exc, prev.exc} /\ proc.exc # prev.exc)
          => proc.exit_code # prev.exit_code

\* a process that ended on a fatal scrape error with code 2, after one that
\* ended on the request limit with code 0
C5_Witness ==
    /\ Exited /\ proc.exc = "ScrapeError" /\ proc.exit_code = 2
    /\ prev.exc = "RequestLimitReached" /\ prev.exit_code = 0

\* scrape_parts has begun to process the items of a category
InItems == proc.pc \in {"part", "variant"}

Distinct(q) == \A i, j \in 1..Len(q) : i # j => q[i] # q[j]

\* C6 (as stated): scrape_parts processes the items of a category only when
\* the number of ids collected from its list pages equals the category's
\* declared item count and the ids are pairwise distinct.
C6_DeclaredCount ==
    InItems =>
        /\ Len(proc.parts) = site.cats[proc.ci].parts_count
        /\ Distinct(proc.parts)

\* C6 (amended): scrape_parts processes the items of a category only when
\* the ids collected from its list pages are pairwise distinct and, in the
\* paginated layout, as many as the banner of the first list page announces;
\* otherwise it has raised ScrapeError (exit code 2) before any item of the
\* category was processed.
C6_BannerCount ==
    /\ InItems =>
          LET first == site.list[parts_list(site.cats[proc.ci].category_id, 1)]
          IN /\ Distinct(proc.parts)
             /\ first.layout = "paged" => Len(proc.parts) = first.total_items
             /\ first.layout = "single" => Len(proc.parts) = 1
    /\ (Exited /\ proc.reason \in {"count", "duplicate"}) =>
          /\ proc.exc = "ScrapeError" /\ proc.exit_code = 2
          /\ proc.pi = 0 /\ proc.failed_part = ""
          /\ ~Distinct(proc.parts) \/ Len(proc.parts) # proc.total_items

\* the banner announced two items, one id was collected: ScrapeError, no
\* item processed
C6_Witness ==
    /\ Exited /\ proc.reason = "count" /\ proc.exc = "ScrapeError"
    /\ Len(proc.parts) = 1 /\ proc.total_items = 2 /\ proc.pi = 0 /\ db.part = {}

\* C7 (as stated): a run that follows a completed run, the database and the
\* site being unchanged, performs no request and no database write.
C7_SecondRunIdle ==
    (runs >= 2 /\ prev.completed) =>
        current_requests_count = 0 /\ proc.writes = 0

\* C7 (amended): a run that follows a completed run, the database and the
\* site being unchanged, performs no database write and goes into no item
\* (every item is found stored, none runs into the unique index), and
\* requests from the network only a page all of whose stored versions are
\* older than the page's cache timeout; it performs a request at all only
\* when a stored version of the categories page is older than its timeout.
C7_SecondRun ==
    (runs >= 2 /\ prev.completed) =>
        /\ proc.writes = 0
        /\ proc.pc \notin {"part", "variant"}
        /\ proc.exc # "IntegrityError"
        /\ call.pc = "loop" =>
              /\ glob_matches(call.url) # {}
              /\ \A f \in glob_matches(call.url) : now - f.ts > req.cache_timeout
        /\ current_requests_count > 0 =>
              \E f \in glob_matches(categories_url) :
                  now - f.ts > CATEGORIES_PAGE_CACHE_TIMEOUT

\* a second run that read the categories page and a list page from the
\* cache and completed without a request or a write
C7_Witness ==
    /\ runs = 2 /\ prev.completed /\ Exited /\ proc.exc = ""
    /\ calls >= 2 /\ current_requests_count = 0 /\ proc.writes = 0
    /\ db.part # {}

\* C8: when the processing of an item has failed after it began, the
\* database holds neither the Part row of the item nor any ColoredPart row
\* of it.
C8_NoPartialItem ==
    (Exited /\ proc.failed_part # "") =>
        /\ ~\E r \in db.part : r.item_id = proc.failed_part
        /\ ~\E v \in db.coloredpart : v.part = proc.failed_part

\* the price page of the second colour was malformed: the Part row and the
\* first ColoredPart row were undone
C8_Witness ==
    /\ Exited /\ proc.failed_part = "p1" /\ proc.exc = "ScrapeError"
    /\ proc.reason = "variant" /\ proc.undone = 2 /\ db.part = {}

\* C9 (as stated): with a request limit configured and reached, get_page
\* fails with RequestLimitReached.
C9_AlwaysLimitReached ==
    (ret.kind # "none" /\ LimitWasReached) =>
        (ret.kind = "error" /\ ret.cls = "RequestLimitReached")

\* C9 (amended): with a request limit configured and reached, a get_page
\* call that finds no usable stored version fails with RequestLimitReached
\* before any pause or request; RequestLimitReached is raised in no other
\* situation, so no other failure is mistaken for it.
C9_LimitReached ==
    /\ call.pc = "loop" => ~LimitWasReached
    /\ (ret.miss /\ LimitWasReached) =>
          /\ ret.kind = "error" /\ ret.cls = "RequestLimitReached"
          /\ ret.reqs = 0 /\ ret.pauses = 0
          /\ current_requests_count = ret.count0
    /\ (ret.kind = "error" /\ ret.cls = "RequestLimitReached") =>
          ret.miss /\ LimitWasReached

\* a call failed with RequestLimitReached while identities were left
C9_Witness ==
    /\ ret.kind = "error" /\ ret.cls = "RequestLimitReached"
    /\ request_sessions # <<>> /\ current_requests_count = requests_limit

\* C10 (as stated): with --requests-limit L the number of requests performed
\* never exceeds L.
C10_NeverExceedsLimit ==
    requests_limit # NoLimit => current_requests_count <= requests_limit

Range(q) == {q[i] : i \in 1..Len(q)}

\* the identity that made the request of the step just taken
Selected == IF call.pc = "loop" THEN call.sess ELSE ret.sess

\* C12: every request is made by an identity of the pool; the identity whose
\* request received a quota signal leaves the pool in that step, and no
\* identity ever enters the pool: a retired identity is never selected
\* again, and the number of live identities never increases.
C12_RetiredForGood ==
    [][/\ Range(request_sessions') \subseteq Range(request_sessions)
       /\ Len(request_sessions') <= Len(request_sessions)
       /\ current_requests_count' = current_requests_count + 1 =>
             /\ Selected' \in Range(request_sessions)
             /\ IF quota_signals' = quota_signals + 1
                THEN /\ Selected' \notin Range(request_sessions')
                     /\ Len(request_sessions') = Len(request_sessions) - 1
                ELSE request_sessions' = request_sessions]_vars

\* of a pool of two, one identity was retired by a quota signal and the
\* other one then fetched the page, within one call
C12_Witness ==
    /\ sessions_num = 2 /\ quota_signals = 1 /\ Len(request_sessions) = 1
    /\ ret.kind = "page" /\ ret.reqs = 2 /\ ret.sess = request_sessions[1]

\* the step is a request of the running fetch
Attempt == current_requests_count' = current_requests_count + 1

C14_NonTwoXXNeverPage ==
    ret.last_bad =>
        /\ ret.kind = "error" /\ ret.cls = "HTTPError"
        /\ ~\E f \in glob_matches(req.url) :
               f.ts = TruncSec(ret.timestamp) /\ ret.kind = "page"

\* the process record x (proc or prev) ended on the pool-exhausted failure
PoolExhausted(x) == x.exc = "ScrapeError" /\ x.msg = QUOTA_MESSAGE

\* the process record x ended on a structural failure: unexpected redirect,
\* malformed page, count mismatch
Structural(x) ==
    \/ x.reason \in {"categories", "banner", "part", "variant", "count", "duplicate"}
    \/ x.reason = "fetch" /\ x.msg = "Unexpected redirect"

\* one of two successive processes ended pool-exhausted, the other on a
\* structural failure
QuotaAndStructural ==
    /\ Exited /\ runs >= 2
    /\ \/ PoolExhausted(proc) /\ Structural(prev)
       \/ Structural(proc) /\ PoolExhausted(prev)

\* C15 (as stated): the pool-exhausted failure is reported with another
\* error kind or another terminal outcome than a structural failure.
C15_DistinctKind ==
    QuotaAndStructural =>
        proc.exc # prev.exc \/ proc.exit_code # prev.exit_code

\* C15 (amended): the pool-exhausted failure and the structural failures are
\* reported with the same error kind, ScrapeError, and the same exit code,
\* 2; only the message tells them apart.  A process that ends with an empty
\* pool ends on the pool-exhausted failure.
C15_SameKind ==
    /\ (Exited /\ PoolExhausted(proc)) =>
          proc.exit_code = 2 /\ proc.reason = "fetch" /\ request_sessions = <<>>
    /\ (Exited /\ request_sessions = <<>>) => PoolExhausted(proc)
    /\ (Exited /\ Structural(proc)) =>
          proc.exc = "ScrapeError" /\ proc.exit_code = 2 /\ proc.msg # QUOTA_MESSAGE
    /\ QuotaAndStructural =>
          proc.exc = prev.exc /\ proc.exit_code = prev.exit_code /\ proc.msg # prev.msg

\* a process ended pool-exhausted after one that ended on a malformed price
\* page, both with ScrapeError and exit code 2
C15_Witness ==
    /\ Exited /\ PoolExhausted(proc) /\ proc.exit_code = 2
    /\ prev.reason = "variant" /\ prev.exc = "ScrapeError" /\ prev.exit_code = 2

\* a step that is one convert_to_euro call
Lookup == lookups' = lookups + 1

\* C16: a rate lookup that returns uses a snapshot whose time is at the
\* smallest absolute difference from the target, earlier or later: with
\* snapshots at 0 and 100 minutes a target of 70 minutes gets the snapshot of
\* 100 minutes and a target of 30 minutes the snapshot of 0; a lookup fails
\* only when a download it made failed, so a smallest difference beyond the
\* expiry time still returns that snapshot, with a warning.
C16_ClosestSnapshot ==
    [][Lookup =>
        /\ conv'.closest = -1 => conv'.download \in {"http_error", "no_success"}
        /\ conv'.closest # -1 =>
              /\ conv'.closest \in euro_conversion_rate_files'
              /\ \A f \in euro_conversion_rate_files' :
                    Abs(conv'.timestamp - conv'.closest) <= Abs(conv'.timestamp - f)
              /\ conv'.warned <=>
                    Abs(conv'.timestamp - conv'.closest) > CONVERSION_RATES_EXPIRY_TIME
              /\ conv'.kind = "value" <=> currency_name(conv'.currency) \in RATE_CODES
        /\ euro_conversion_rate_files' = {0, Minutes(100)} =>
              /\ conv'.timestamp = Minutes(70) => conv'.closest = Minutes(100)
              /\ conv'.timestamp = Minutes(30) => conv'.closest = 0
    ]_vars

\* snapshots at 0 and 100 minutes, a target of 70 minutes, no download: the
\* later snapshot was used and a value returned
C16_Witness ==
    /\ euro_conversion_rate_files = {0, Minutes(100)}
    /\ conv.timestamp = Minutes(70)
    /\ conv.download = "no"
    /\ conv.closest = Minutes(100)
    /\ conv.kind = "value"

\* a lookup whose closest snapshot is further than the expiry time from the
\* target returned a value all the same
C16_BeyondExpiry ==
    /\ conv.kind = "value"
    /\ conv.warned
    /\ Abs(conv.timestamp - conv.closest) > CONVERSION_RATES_EXPIRY_TIME

\* C17: a rate lookup downloads a snapshot exactly when there is none, or
\* the timestamp asked for is not before the newest snapshot and the clock is
\* more than the expiry time past the newest snapshot; a lookup for a
\* timestamp before the newest snapshot never downloads, however old the
\* snapshots are.
C17_DownloadIff ==
    [][Lookup =>
        LET files == euro_conversion_rate_files
            newest == CHOOSE f \in files : \A g \in files : g <= f
        IN /\ conv'.download # "no" <=>
                 \/ files = {}
                 \/ /\ conv'.timestamp >= newest
                    /\ now - newest > CONVERSION_RATES_EXPIRY_TIME
           /\ (files # {} /\ conv'.timestamp < newest) =>
                 /\ conv'.download = "no"
                 /\ euro_conversion_rate_files' = files
           /\ conv'.download = "ok" /\ conv'.closest # -1 =>
                 euro_conversion_rate_files' = files \cup {TruncSec(now)}
    ]_vars

\* all snapshots are older than the expiry time, the timestamp asked for is
\* before the newest of them, and the lookup returned without a download
C17_Witness ==
    /\ euro_conversion_rate_files = {0, Minutes(100)}
    /\ now - Minutes(100) > CONVERSION_RATES_EXPIRY_TIME
    /\ conv.timestamp = Minutes(70)
    /\ conv.download = "no"
    /\ conv.kind = "value"

\* C18: a conversion whose currency code, after the abbreviation mapping and
\* upper-casing, is not in the snapshot used fails with a ScrapeError.
C18_UnknownCodeScrapeError ==
    (conv.closest # -1 /\ currency_name(conv.currency) \notin RATE_CODES)
        => (conv.kind = "error" /\ conv.cls = "ScrapeError")

\* what the database holds outside the open db.atomic() block
Committed == IF proc.atomic THEN proc.snap ELSE db

PartIds == {"p1", "p2"}
ColorIds == {"0", "1"}

\* the part page of an item and its price pages
ItemURLs(x) == {part_info(x)} \cup {part_details(x, c) : c \in ColorIds}

\* C19: processing an item that the database already holds is a no-op: no
\* get_page call (so neither a cache lookup nor a request) is made for its
\* part page or any of its price pages, PartScrape.scrape is not gone into
\* for it, and no row of it is written or removed.
C19_PersistedItemSkipped ==
    [][\A x \in PartIds :
          (\E r \in Committed.part : r.item_id = x) =>
              /\ calls' # calls => req'.url \notin ItemURLs(x)
              /\ (proc'.pc \in {"part", "variant"} /\ proc' # proc)
                    => proc'.parts[proc'.pi] # x
              /\ {r \in db'.part : r.item_id = x}
                    = {r \in Committed.part : r.item_id = x}
              /\ {v \in db'.coloredpart : v.part = x}
                    = {v \in Committed.coloredpart : v.part = x}
    ]_vars

\* the second category listed the part the first category had stored: the
\* run ended well, its last get_page call being that for the list page
C19_Witness ==
    /\ runs = 1 /\ Exited /\ proc.exc = ""
    /\ Len(site.cats) = 2 /\ proc.ci = 3
    /\ proc.parts = <<"p1">>
    /\ req.url = parts_list("c2", 1)
    /\ \E r \in db.part : r.item_id = "p1" /\ r.category = "c1"

\* the step in which ColoredPartScrape.scrape finds its variant in the database
FoundVariant == proc'.reason = "colored" /\ proc.reason # "colored"

\* C20: processing a variant that the database already holds for its item is
\* a no-op: no fetch, no database write, no error.
C20_PersistedVariantNoOp ==
    [][FoundVariant =>
          /\ calls' = calls
          /\ db' = db
          /\ proc'.exc = ""
    ]_vars

\* C20 (amended): processing a variant that the database already holds for its
\* item makes no fetch and raises RuntimeError: the transaction of the item is
\* rolled back, which removes the item and the variants written in it, and
\* the process ends with status 1; get_page is never called for the price
\* page of a variant the database holds.
C20_PersistedVariantRaises ==
    [][/\ FoundVariant =>
             /\ calls' = calls /\ pages' = pages
             /\ current_requests_count' = current_requests_count
             /\ proc'.exc = "RuntimeError" /\ proc'.exit_code = 1
             /\ proc.atomic /\ db' = proc.snap
             /\ ~\E r \in db'.part : r.item_id = proc'.failed_part
             /\ ~\E v \in db'.coloredpart : v.part = proc'.failed_part
       /\ (calls' # calls /\ proc'.pc = "variant") =>
             [part |-> proc'.parts[proc'.pi], color_id |-> proc'.colors[proc'.coli]]
                 \notin db'.coloredpart
    ]_vars

\* the part page listed a colour twice: the second time the variant was in
\* the database, and the run ended with the RuntimeError and nothing stored
\* of the item
C20_Witness ==
    /\ Exited /\ proc.reason = "colored"
    /\ proc.exc = "RuntimeError" /\ proc.exit_code = 1
    /\ proc.colors = <<"0", "0">> /\ proc.coli = 2
    /\ proc.undone = 2
    /\ db.part = {} /\ db.coloredpart = {}

\* the parts of category c the database holds
Persisted(d, c) == Cardinality({r \in d.part : r.category = c.category_id})

\* the categories the loop of run_scrape comes to in the step
Decided(i) ==
    /\ runs' = runs /\ proc'.ci > proc.ci
    /\ proc.ci < i /\ i <= proc'.ci /\ i <= Len(site.cats)

\* C21: for each category run_scrape comes to: when the database holds at
\* least as many of its parts as the categories page declares, no list page
\* of it is fetched and none of its items is processed (the loop goes on to
\* the next category), with the warning exactly when it holds more; when it
\* holds fewer, scrape_parts is entered and asks for the first list page.
C21_CategoryDecision ==
    [][/\ \A i \in 1..2 :
            Decided(i) =>
               LET c == site.cats[i]
                   persisted == Persisted(db', c)
               IN /\ persisted >= c.parts_count =>
                        /\ proc'.ci > i
                        /\ calls' # calls =>
                              req'.url \notin {parts_list(c.category_id, n) : n \in 1..2}
                        /\ c.category_id \in proc'.warned <=> persisted > c.parts_count
                  /\ persisted < c.parts_count =>
                        /\ proc'.ci = i /\ proc'.pc = "list"
                        /\ calls' = calls + 1
                        /\ req'.url = parts_list(c.category_id, 1)
                        /\ c.category_id \notin proc'.warned
       /\ runs' = runs => proc'.ci >= proc.ci
       /\ (calls' # calls /\ proc'.pc \in {"list", "part", "variant"}) =>
             /\ proc'.ci \in 1..Len(site.cats)
             /\ proc'.pc = "list" =>
                   req'.url = parts_list(site.cats[proc'.ci].category_id, proc'.page_n)
    ]_vars

\* a second run, the first having stored two parts of a category declared
\* to have one: the warning, no list page asked for, the run ends well
C21_Witness ==
    /\ runs = 2 /\ Exited /\ proc.exc = ""
    /\ proc.warned = {"c1"}
    /\ site.cats = <<CategoryScrape("c1", 1)>>
    /\ Persisted(db, site.cats[1]) = 2
    /\ calls = 1 /\ req.url = categories_url

\* the step in which an exception is raised in the process
Fails == runs' = runs /\ proc.reason = "" /\ proc'.reason # ""

\* C22: a failure raised while an item or a variant is processed ends the
\* run: the step of the failure leaves run_scrape with the exception, with no
\* get_page call, no request and no row added, and from then on the process
\* does nothing: the only step after it is the start of another process.
C22_FailureAbortsRun ==
    [][/\ Fails =>
             /\ proc'.pc = "exited" /\ proc'.exc # ""
             /\ proc'.exit_code = main_exit(proc'.exc)
             /\ calls' = calls /\ pages' = pages
             /\ current_requests_count' = current_requests_count
             /\ db'.category \subseteq db.category
             /\ db'.part \subseteq db.part
             /\ db'.coloredpart \subseteq db.coloredpart
       /\ proc.pc = "exited" => (runs' = runs + 1 /\ db' = db /\ pages' = pages)
    ]_vars

\* the connection broke while the first of two parts was processed: the run
\* ended there, the second part was never asked for and nothing of either
\* part is stored
C22_Witness ==
    /\ Exited /\ proc.exc = "ConnectionError" /\ proc.exit_code = 1
    /\ proc.parts = <<"p1", "p2">> /\ proc.failed_part = "p1"
    /\ req.url \in ItemURLs("p1")
    /\ db.part = {} /\ db.coloredpart = {}

OFFLINE_MESSAGE == "Bricklink offline for more than 200 minutes"

\* the step is an attempt whose response came from the offline page
OfflineResponse ==
    /\ Attempt
    /\ \/ call'.pc = "loop" /\ call'.last \in {"offline", "status_offline"}
       \/ call'.pc = "idle" /\ ret'.final = "offline"

\* the long sleep and another turn of the loop
LongSleepAndRetry ==
    /\ call'.pc = "loop"
    /\ call'.offline_sleeps = call.offline_sleeps + 1
    /\ call'.daily_offline_retries = call.daily_offline_retries + 1
    /\ call'.retry_sleeps = call.retry_sleeps
    /\ ret' = ret /\ pages' = pages

\* the fetch fails: offline for too long
OfflineTooLong ==
    /\ call'.pc = "idle"
    /\ ret'.kind = "error" /\ ret'.cls = "ScrapeError" /\ ret'.msg = OFFLINE_MESSAGE
    /\ pages' = pages

C24_PauseBeforeEveryAttempt ==
    [][Attempt =>
          LET go_on == call'.pc = "loop"
              pause == IF go_on THEN call'.pause ELSE ret'.pause
              pauses == IF go_on THEN call'.pauses ELSE ret'.pauses
              reqs == IF go_on THEN call'.reqs ELSE ret'.reqs
          IN /\ call.pc = "loop"
             /\ reqs = call.reqs + 1
             /\ pauses = call.pauses + 1
             /\ pauses = reqs
             /\ \/ request_min_pause <= pause /\ pause <= request_max_pause
                \/ request_max_pause <= pause /\ pause <= request_min_pause
    ]_vars

\* a fetch of four requests: one retired an identity, one was retried on its
\* status, one after the long sleep, the fourth returned the page; four
\* pauses, the last of the full length of the window
C24_Witness ==
    /\ ret.kind = "page" /\ ret.miss
    /\ ret.reqs = 4 /\ ret.pauses = 4
    /\ quota_signals = 1 /\ ret.retry_sleeps = 1 /\ ret.bad = 1
    /\ request_min_pause < request_max_pause
    /\ ret.pause = request_max_pause

\* what a get_page call for the URL and timeout of the latest call would
\* find in the pages directory as the step leaves it
ScanAfter ==
    cache_scan(reversed_sorted({f \in pages' : f.name = filename_encode(req.url)}),
               req.cache_timeout, now')

\* C25: when get_page returns from a download, the pages directory holds a
\* version under the name of the URL asked for carrying the body returned,
\* and a get_page call for the same URL with the same cache_timeout made at
\* once is a cache hit that returns the same body.
C25_FetchThenHit ==
    [][(Attempt /\ ret'.kind = "page") =>
          /\ \E f \in pages' :
                /\ f.name = filename_encode(req.url)
                /\ f.kind = "ok" /\ f.body = ret'.source
                /\ f.ts = TruncSec(ret'.timestamp)
          /\ ScanAfter.out = "hit"
          /\ ScanAfter.source = ret'.source
    ]_vars

\* C26: a version of the page that cannot be read is never fatal to
\* get_page: the call passes over it and either returns an older version
\* that is still within cache_timeout or goes on to the download.
C26_CorruptNeverFatal ==
    [][(calls' = calls + 1 /\ \E f \in glob_matches(req'.url) : f.kind # "ok") =>
          \/ /\ ret'.kind = "page" /\ ret'.hit
             /\ \E f \in glob_matches(req'.url) :
                   /\ f.kind = "ok" /\ f.body = ret'.source /\ f.ts = ret'.timestamp
                   /\ ~TooOld(now - f.ts, req'.cache_timeout)
          \/ ret'.miss
          \/ call'.pc = "loop"
    ]_vars

\* C27: the session pool is created with exactly sessions_num identities,
\* whose user agents are members of USER_AGENTS and differ from one another;
\* when sessions_num is greater than the length of USER_AGENTS the
\* construction fails at once: the process ends before any get_page call.
C27_PoolConstruction ==
    [][/\ (proc.pc = "main" /\ proc'.pc # "main") =>
             IF sessions_num > Cardinality(USER_AGENTS)
             THEN /\ proc'.pc = "exited" /\ proc'.exc = "ValueError"
                  /\ proc'.exit_code = 1
                  /\ request_sessions' = <<>>
                  /\ calls' = 0 /\ current_requests_count' = 0
             ELSE /\ proc'.pc = "constructed"
                  /\ Len(request_sessions') = sessions_num
                  /\ Distinct(request_sessions')
                  /\ Range(request_sessions') \subseteq USER_AGENTS
       /\ proc.pc = "exited" => (calls' = calls /\ call' = call)
    ]_vars

\* a pool of two sessions was constructed, with two different user agents
C27_Witness ==
    /\ proc.pc = "constructed" /\ sessions_num = 2
    /\ Len(request_sessions) = 2
    /\ request_sessions[1] # request_sessions[2]
    /\ calls = 0

\* construction with one session more than there are user agents has failed
C27_TooMany ==
    /\ sessions_num = Cardinality(USER_AGENTS) + 1
    /\ proc.pc = "exited" /\ proc.exc = "ValueError"

\* C28: in every state, a Ctrl+C in the middle of a download included, each
\* snapshot timestamp held in euro_conversion_rates is also a key of
\* euro_conversion_rate_files, and each key of euro_conversion_rate_files
\* has its file in the rates directory: the download writes the file first.
C28_DiskBeforeMemory ==
    /\ euro_conversion_rates \subseteq euro_conversion_rate_files
    /\ euro_conversion_rate_files \subseteq rates_dir

\* a download was interrupted after the file was written and before the
\* snapshot entered the index: the file is on disk, the memory has nothing of it
C28_Witness ==
    /\ ~Running
    /\ conv.download = "interrupted"
    /\ TruncSec(now) \in rates_dir
    /\ TruncSec(now) \notin euro_conversion_rate_files
    /\ TruncSec(now) \notin euro_conversion_rates

\* a download ran to its end: the snapshot is on disk, in the index and in
\* the rates held in memory
C28_Downloaded ==
    /\ conv.download = "ok" /\ conv.kind = "value"
    /\ conv.closest \in euro_conversion_rates
    /\ conv.closest \in rates_dir
    /\ conv.closest \notin {0, Minutes(100)}

\* a step of ColoredPartScrape.scrape that converts the prices of the page
\* get_page returned
ConvertsPrices ==
    /\ Returned("variant") /\ proc' # proc
    /\ site.variant[ret.source] # "malformed"

\* C29: the prices of a variant are converted for the timestamp of the page
\* get_page returned, which for a page read from the cache is the timestamp
\* of the cache file: the download of a snapshot is decided for that
\* timestamp and the snapshot used is one at the least distance from it,
\* whatever the clock's time at the conversion.
C29_PageTimestamp ==
    [][ConvertsPrices =>
        /\ conv'.timestamp = ret.timestamp
        /\ ret.hit => \E f \in pages : /\ f.name = filename_encode(req.url)
                                       /\ f.ts = ret.timestamp
        /\ conv'.download # "no" <=>
              IF needs_download(euro_conversion_rate_files, ret.timestamp, now)
              THEN TRUE ELSE FALSE
        /\ conv'.closest # -1 =>
              /\ conv'.closest \in euro_conversion_rate_files'
              /\ \A f \in euro_conversion_rate_files' :
                    Abs(ret.timestamp - conv'.closest) <= Abs(ret.timestamp - f)
    ]_vars

\* in a second run the prices of a price page of the first run, read from
\* the cache more than the expiry time later, were converted for the
\* timestamp of the page: with the snapshot of the first run, not with the
\* snapshot downloaded in the second, which is the closest to the clock's time
C29_Witness ==
    /\ runs = 2
    /\ conv.kind = "value"
    /\ now - conv.timestamp > CONVERSION_RATES_EXPIRY_TIME
    /\ conv.closest \in euro_conversion_rate_files
    /\ TruncSec(now) \in euro_conversion_rate_files
    /\ conv.closest # TruncSec(now)
    /\ Abs(conv.timestamp - conv.closest) < Abs(conv.timestamp - TruncSec(now))

\* a page file that holds a whole page, or one get_page passes over
WholeOrSkipped(f) == f.kind = "badgzip" \/ (f.kind = "ok" /\ f.body # "")

\* C30: whenever Ctrl+C arrives, the pages directory holds afterwards no
\* partly written page file that a later get_page call can select: every
\* file holds the whole page it was written for, or is passed over on read.
C30_WriteAllOrNothing == \A f \in pages : WholeOrSkipped(f)

\* a later process got from get_page, as a cache hit, the page of no content
\* that an interrupted write left
C30_EmptyPageServed ==
    /\ runs = 2 /\ prev.exc = "KeyboardInterrupt"
    /\ ret.kind = "page" /\ ret.hit /\ ret.source = ""

\* a later process ended on the EOFError of reading the file that an
\* interrupted write left
C30_LaterRunFails ==
    /\ runs = 2 /\ prev.exc = "KeyboardInterrupt"
    /\ Exited /\ proc.exc = "EOFError" /\ proc.exit_code = 1

\* the most network attempts one _download_page call can make, of the number
\* of identities alive when it starts
MostAttempts(n) == n + MAX_REQUEST_RETRIES + MAX_DAILY_OFFLINE_RETRIES

\* C31: a _download_page call that starts with N identities makes at most
\* N + MAX_REQUEST_RETRIES + 10 network attempts before it returns a body or
\* raises, whatever the server answers: while the loop runs, every attempt
\* made so far has retired an identity or used up one of the status retries
\* or one of the offline retries, and none of the three can be had again.
C31_AttemptBound ==
    /\ call.pc = "loop" =>
          /\ call.reqs = (ret.pool - Len(request_sessions))
                         + call.unexpected_status_retries
                         + call.daily_offline_retries
          /\ Len(request_sessions) >= 1
          /\ call.unexpected_status_retries <= MAX_REQUEST_RETRIES
          /\ call.daily_offline_retries <= MAX_DAILY_OFFLINE_RETRIES
          /\ call.reqs < MostAttempts(ret.pool)
    /\ call.pc = "idle" => ret.reqs <= MostAttempts(ret.pool)

\* a call that started with two identities has ended after 17 attempts
C31_Witness ==
    /\ call.pc = "idle" /\ ret.kind \in {"page", "error"}
    /\ ret.pool = 2
    /\ ret.reqs = MostAttempts(2)

\* a get_page call enters _download_page
EntersLoop == calls' = calls + 1 /\ call'.pc = "loop"

\* the loop of the running _download_page goes round again
GoesRound == call.pc = "loop" /\ call'.pc = "loop" /\ Attempt

\* C32: unexpected_status_retries and daily_offline_retries are locals of
\* the _download_page call: both are 0 when a call enters the loop, whatever
\* the calls before it used up; a turn of the loop changes them by adding one
\* to one of them, or not at all; a turn that retires an identity leaves
\* both as they are; the first never exceeds MAX_REQUEST_RETRIES and the
\* second never exceeds 10, and they count the retry pauses and the long
\* sleeps of the call.
C32_CountersPerCall ==
    [][/\ EntersLoop =>
             /\ call'.unexpected_status_retries = 0
             /\ call'.daily_offline_retries = 0
       /\ GoesRound =>
             LET ds == call'.unexpected_status_retries - call.unexpected_status_retries
                 do == call'.daily_offline_retries - call.daily_offline_retries
             IN /\ ds \in {0, 1} /\ do \in {0, 1} /\ ds + do <= 1
                /\ Len(request_sessions') < Len(request_sessions) => ds + do = 0
                /\ call'.unexpected_status_retries <= MAX_REQUEST_RETRIES
                /\ call'.daily_offline_retries <= MAX_DAILY_OFFLINE_RETRIES
                /\ call'.retry_sleeps = call'.unexpected_status_retries
                /\ call'.offline_sleeps = call'.daily_offline_retries
                /\ call'.bad_sleeps <= MAX_REQUEST_RETRIES
    ]_vars

\* a second call, which started with two identities and both counters at 0
\* after a first call of more than fifteen attempts, has retired an identity
\* and used up all five status retries and all ten offline retries
C32_Witness ==
    /\ calls = 2 /\ call.pc = "loop"
    /\ ret.count0 > MostAttempts(0)
    /\ Len(request_sessions) = 1 /\ ret.pool = 2
    /\ quota_signals = 1
    /\ call.unexpected_status_retries = MAX_REQUEST_RETRIES
    /\ call.daily_offline_retries = MAX_DAILY_OFFLINE_RETRIES

\* a step of the program, not of its surroundings (the clock, the disk)
ProgramStep == call' # call \/ ret' # ret \/ calls' # calls

\* the step ends a get_page call with a page fetched from the network
FetchSucceeds == call.pc = "loop" /\ call'.pc = "idle" /\ ret'.kind = "page"

\* C33 (as stated): a get_page call that ends in a failure leaves the pages
\* directory as it was; no step of the program removes a page file or writes
\* over one; the directory changes only when a network fetch succeeds, and
\* then it has exactly one file more.
C33_CacheOnlyGrows ==
    [][ProgramStep =>
        /\ pages \subseteq pages'
        /\ ret'.kind = "error" => pages' = pages
        /\ FetchSucceeds => Cardinality(pages') = Cardinality(pages) + 1
        /\ pages' # pages => FetchSucceeds
    ]_vars

\* the name and second a page file is stored under
FileKeys(files) == {<<f.name, f.ts>> : f \in files}

\* C33 (amended): a get_page call that ends in a failure leaves the pages
\* directory as it was and the directory changes only when a network fetch
\* succeeds.  The fetch writes one file, named by the URL and the second the
\* call started in: no file is removed and every readable file stays as it
\* is; the directory has one file more, unless a file of that name was there,
\* which get_page had passed over as a bad gzip file and which now holds the
\* new page.
C33_CacheGrowsOrHeals ==
    [][ProgramStep =>
        /\ ret'.kind = "error" => pages' = pages
        /\ pages' # pages => FetchSucceeds
        /\ FileKeys(pages) \subseteq FileKeys(pages')
        /\ {f \in pages : f.kind # "badgzip"} \subseteq pages'
        /\ FetchSucceeds =>
              LET new == [name |-> filename_encode(call.url),
                          ts |-> TruncSec(call.stamp),
                          body |-> ret'.source, kind |-> "ok"]
                  old == {f \in pages : f.name = new.name /\ f.ts = new.ts}
              IN /\ pages' = (pages \ old) \cup {new}
                 /\ Cardinality(old) <= 1
                 /\ \A f \in old : f.kind = "badgzip"
                 /\ Cardinality(pages') = Cardinality(pages) + 1 - Cardinality(old)
    ]_vars

\* a network fetch of a page, of which an older version was stored, has
\* added a file for it: both versions are in the directory
C33_Witness ==
    /\ call.pc = "idle"
    /\ ret.kind = "page" /\ ret.miss /\ ret.reqs >= 1
    /\ \E f, g \in glob_matches(req.url) :
          /\ f.ts < g.ts /\ g.ts = TruncSec(ret.timestamp)
          /\ f.kind = "ok" /\ g.kind = "ok" /\ g.body = ret.source
          /\ g.ts > TicksPerSecond

\* a fetch has written over a bad gzip file of the second it started in
C33_Healed ==
    /\ calls = 1 /\ call.pc = "idle"
    /\ ret.kind = "page" /\ ret.miss
    /\ Cardinality(glob_matches(req.url)) = 2
    /\ \A f \in glob_matches(req.url) : f.kind = "ok"
    /\ \E f \in glob_matches(req.url) : f.ts = TicksPerSecond /\ f.body = ret.source
    /\ TruncSec(ret.timestamp) = TicksPerSecond /\ ret.timestamp > TicksPerSecond

\* C34: in every state of every run, a run after aborted runs included, the
\* Part table has at most one row for an item id, the ColoredPart table has
\* at most one row for a part and colour id (no row was ever inserted for a
\* pair that had one), and the part of every ColoredPart row has its Part row.
C34_UniqueRows ==
    /\ \A r1, r2 \in db.part : r1.item_id = r2.item_id => r1 = r2
    /\ db.dup = 0
    /\ \A v \in db.coloredpart : \E r \in db.part : r.item_id = v.part

\* a run that followed an aborted run has completed: two Part rows and the
\* two ColoredPart rows of the first part are stored
C34_Witness ==
    /\ runs = 2 /\ ~prev.completed /\ prev.exc # ""
    /\ Exited /\ proc.exc = ""
    /\ Cardinality(db.part) = 2
    /\ db.coloredpart = {[part |-> "p1", color_id |-> "0"],
                         [part |-> "p1", color_id |-> "1"]}

\* the snapshots a step saves and enters in the index
Added == euro_conversion_rate_files' \ euro_conversion_rate_files

\* C35 (as stated): a step of the running program adds at most one snapshot
\* to the index; an added snapshot is newer than every snapshot of the index
\* and more than the expiry time after the newest of them; no download finds
\* its file name taken.
C35_NewestByMoreThanExpiry ==
    [][Running =>
        /\ Cardinality(Added) <= 1
        /\ euro_conversion_rate_files \subseteq euro_conversion_rate_files'
        /\ conv'.cls # "AssertionError"
        /\ \A t \in Added : \A f \in euro_conversion_rate_files :
              t - f > CONVERSION_RATES_EXPIRY_TIME
    ]_vars

\* C35 (amended): a step of the running program adds at most one snapshot
\* to the index; an added snapshot has the clock's time cut to the whole
\* second, is newer than every snapshot of the index and at least the expiry
\* time after the newest of them (the clock is more than the expiry time after
\* it, the snapshot's timestamp, being cut to the second, can be at exactly
\* the expiry time); no download finds its file name taken.
C35_NewestByExpiry ==
    [][Running =>
        /\ Cardinality(Added) <= 1
        /\ euro_conversion_rate_files \subseteq euro_conversion_rate_files'
        /\ conv'.cls # "AssertionError"
        /\ \A t \in Added :
              /\ t = TruncSec(now)
              /\ t \notin rates_dir
              /\ \A f \in euro_conversion_rate_files :
                    /\ t > f
                    /\ t - f >= CONVERSION_RATES_EXPIRY_TIME
                    /\ now - f > CONVERSION_RATES_EXPIRY_TIME
    ]_vars

\* a lookup has downloaded a snapshot whose timestamp is at exactly the
\* expiry time after the snapshot that was the newest
C35_Witness ==
    /\ conv.download = "ok" /\ conv.kind = "value"
    /\ TruncSec(now) \in euro_conversion_rate_files
    /\ TruncSec(now) - CONVERSION_RATES_EXPIRY_TIME \in euro_conversion_rate_files
    /\ \A f \in euro_conversion_rate_files : f <= TruncSec(now)
    /\ now > TruncSec(now)
    /\ conv.closest = TruncSec(now)

====
